---- MODULE Spec2Model ----
(***************************************************************************)
(* Model of apollo-router's demand-control static cost calculator          *)
(* (plugins/demand_control/cost_calculator/static_cost.rs).                *)
(*                                                                         *)
(* The calculator is a family of pure, mutually recursive scorers over a   *)
(* parsed query, a schema and a query plan.  The scorers are operators     *)
(* here, computed as the code computes them (same order of lookups, same   *)
(* early returns).  The state machine is the calculator after `new` plus   *)
(* one call in flight: a caller invokes one of the scorers with inputs     *)
(* drawn from bounded sets, the result is recorded, the caller returns.    *)
(* The response visitor behind `actual` is an operator over the visitor's  *)
(* running cost.  A second state machine follows one call of `estimated`   *)
(* step by step, as the stack of its calls of score_selection_set.         *)
(*                                                                         *)
(* Costs are f64 in the code; every weight and size of the model is an     *)
(* integer small enough for f64 arithmetic to be exact, so costs are       *)
(* integers here.  `list_size` is a u32 that the code casts to i32; it is  *)
(* kept as two 16-bit halves so that the cast keeps its width.             *)
(***************************************************************************)
EXTENDS Integers, Sequences, FiniteSets, TLC

VARIABLES
    list_size,          \* StaticCostCalculator.list_size (u32, as halves)
    supergraph_schema,  \* StaticCostCalculator.supergraph_schema
    subgraph_schemas,   \* StaticCostCalculator.subgraph_schemas
    pc,                 \* "idle": no call in flight; "scoring": estimated is
                        \* running; "done": a call returned
    call,               \* the scorer called and its arguments
    result,             \* what the call returned
    stack               \* the calls of score_selection_set in progress, the
                        \* innermost last

vars == <<list_size, supergraph_schema, subgraph_schemas, pc, call, result, stack>>

(***************************************************************************)
(* Bounds of the enumerated inputs.                                        *)
(***************************************************************************)
\* selections (fields, fragments) in an enumerated selection set, nested ones included
MaxNodes == 3
\* nodes (literals, nested ones included) in an enumerated argument value
MaxValueNodes == 3
\* nodes in an enumerated query plan
MaxPlanNodes == 3
\* items in an array of an enumerated response
MaxItems == 2
\* calls of score_selection_set followed into one another
MaxDepth == 8

(***************************************************************************)
(* Option<T> and Result<f64, DemandControlError>.                          *)
(***************************************************************************)
None == [some |-> FALSE]
Some(x) == [some |-> TRUE, v |-> x]

Ok(c) == [ok |-> TRUE, cost |-> c]
\* DemandControlError; `e` names the variant and the message the code formats
Err(e) == [ok |-> FALSE, err |-> e]

(***************************************************************************)
(* u32 and the cast `as i32`.                                              *)
(***************************************************************************)
U32(h, l) == [hi |-> h, lo |-> l]

\* `self.list_size as i32`: the two's-complement reading of the 32 bits
list_size_as_i32(u) ==
    IF u.hi < 32768 THEN u.hi * 65536 + u.lo ELSE (u.hi - 65536) * 65536 + u.lo

(***************************************************************************)
(* Schema side: types, field definitions, argument definitions and the     *)
(* directives DemandControlledSchema resolves for them.                    *)
(***************************************************************************)
\* ast::Type: inner_named_type() and is_list()
Ty(n, l) == [name |-> n, list |-> l]

\* InputValueDefinition: name, declared type, @cost weight (Option)
ArgDef(n, t, c) == [name |-> n, ty |-> t, cost |-> c]

\* ListSizeDirective: expected_size (Option<i32>), sized_fields (names)
ListSize(e, s) == [expected_size |-> e, sized_fields |-> s]

\* the @listSize a field definition carries: assumed size (Option<i32>), the
\* slicing argument that supplies the size at query time (Option), sized fields
ListSizeDef(a, sl, s) == [assumed_size |-> a, slicing_argument |-> sl, sized_fields |-> s]

\* FieldDefinition with the directives the schema resolves for (parent, field)
FieldDef(t, a, c, l, r) ==
    [ty |-> t, arguments |-> a, cost |-> c, list_size |-> l, requires |-> r]

\* ExtendedType: kind and, for object / interface / input-object types, fields
TypeDef(k, f) == [kind |-> k, fields |-> f]

\* the empty map
NoEntries == <<>>

(***************************************************************************)
(* Query side: executable::Field, FragmentSpread, InlineFragment,          *)
(* ast::Value.                                                             *)
(***************************************************************************)
\* executable::Field: name, ty() of its attached definition, arguments,
\* selection set, and the `if` argument of @skip / @include
\* ("absent" | "true" | "false" | "variable")
Field(n, t, a, s, sk, inc) ==
    [kind |-> "Field", name |-> n, ty |-> t, arguments |-> a,
     selection_set |-> s, skip |-> sk, include |-> inc]

FragmentSpread(n) == [kind |-> "FragmentSpread", fragment_name |-> n]

\* type_condition is an Option<NamedType>
InlineFragment(tc, s) ==
    [kind |-> "InlineFragment", type_condition |-> tc, selection_set |-> s]

\* ast::Argument and the entries of an object literal
Arg(n, v) == [name |-> n, value |-> v]

VNull == [kind |-> "Null"]
VInt(i) == [kind |-> "Int", int |-> i]
VEnum(e) == [kind |-> "Enum", enum |-> e]
VObject(fs) == [kind |-> "Object", fields |-> fs]
VList(is) == [kind |-> "List", items |-> is]

(***************************************************************************)
(* score_argument (static_cost.rs 38-91).                                  *)
(***************************************************************************)
\* CostDirective::from_argument: the @cost of an argument definition
CostDirective_from_argument(argument_definition) == argument_definition.cost

\* cost_directive.map_or(default, |cost| cost.weight())
weight_or(cost_directive, default) ==
    IF cost_directive.some THEN cost_directive.v ELSE default

RECURSIVE score_argument(_, _, _)
RECURSIVE score_object_fields(_, _, _, _, _, _)
RECURSIVE score_list_items(_, _, _, _, _)

\* the loop of lines 69-78 from entry i on, `cost` accumulated so far
score_object_fields(inner_args, i, inner_arg_defs, argument_definition, schema, cost) ==
    IF i > Len(inner_args) THEN Ok(cost)
    ELSE IF inner_args[i].name \notin DOMAIN inner_arg_defs.fields
         THEN Err("QueryParseFailure: input field not found")
    ELSE LET r == score_argument(inner_args[i].value,
                                 inner_arg_defs.fields[inner_args[i].name], schema)
         IN IF ~r.ok THEN r
            ELSE score_object_fields(inner_args, i + 1, inner_arg_defs,
                                     argument_definition, schema, cost + r.cost)

\* the loop of lines 83-85 from element i on
score_list_items(inner_args, i, argument_definition, schema, cost) ==
    IF i > Len(inner_args) THEN Ok(cost)
    ELSE LET r == score_argument(inner_args[i], argument_definition, schema)
         IN IF ~r.ok THEN r
            ELSE score_list_items(inner_args, i + 1, argument_definition, schema,
                                  cost + r.cost)

\* not the code: an input-object literal starting from the weight of a list
object_literal_weight_as_list(cost_directive) == weight_or(cost_directive, 0)

\* the weight an input-object literal starts from (line 68)
object_literal_weight(cost_directive) == weight_or(cost_directive, 1)

\* the weight a list literal starts from (line 82)
list_literal_weight(cost_directive) == weight_or(cost_directive, 0)

\* not the code: a null literal scored as any other scalar literal
null_literal_weighted(cost_directive) == weight_or(cost_directive, 0)

\* the score of a null literal (line 88)
null_literal_score(cost_directive) == 0

\* the score of any other literal (line 89)
scalar_literal_score(cost_directive) == weight_or(cost_directive, 0)

\* not the code: an integer literal adds its value to the score
score_argument_by_value(argument, argument_definition, schema) ==
    LET cost_directive == CostDirective_from_argument(argument_definition)
        ty_name == argument_definition.ty.name
    IN IF ty_name \notin DOMAIN schema.types
       THEN Err("QueryParseFailure: argument type not found")
       ELSE LET ty == schema.types[ty_name] IN
            IF ty.kind \in {"Interface", "Object", "Union"}
            THEN Err("QueryParseFailure: argument type disallowed")
            ELSE IF argument.kind = "Object" /\ ty.kind = "InputObject"
            THEN score_object_fields(argument.fields, 1, ty, argument_definition,
                                     schema, object_literal_weight(cost_directive))
            ELSE IF argument.kind = "List"
            THEN score_list_items(argument.items, 1, argument_definition, schema,
                                  list_literal_weight(cost_directive))
            ELSE IF argument.kind = "Null"
            THEN Ok(null_literal_score(cost_directive))
            ELSE IF argument.kind = "Int"
            THEN Ok(scalar_literal_score(cost_directive) + argument.int)
            ELSE Ok(scalar_literal_score(cost_directive))

\* score_argument (38-91)
score_argument(argument, argument_definition, schema) ==
    LET cost_directive == CostDirective_from_argument(argument_definition)
        ty_name == argument_definition.ty.name
    IN IF ty_name \notin DOMAIN schema.types
       THEN Err("QueryParseFailure: argument type not found")
       ELSE LET ty == schema.types[ty_name] IN
            IF ty.kind \in {"Interface", "Object", "Union"}
            THEN Err("QueryParseFailure: argument type disallowed")
            ELSE IF argument.kind = "Object" /\ ty.kind = "InputObject"
            THEN score_object_fields(argument.fields, 1, ty, argument_definition,
                                     schema, object_literal_weight(cost_directive))
            ELSE IF argument.kind = "List"
            THEN score_list_items(argument.items, 1, argument_definition, schema,
                                  list_literal_weight(cost_directive))
            ELSE IF argument.kind = "Null"
            THEN Ok(null_literal_score(cost_directive))
            ELSE Ok(scalar_literal_score(cost_directive))

(***************************************************************************)
(* What the scorers ask of their collaborators (DemandControlledSchema,    *)
(* the directives module, apollo_compiler).                                *)
(***************************************************************************)
\* schema.type_field(parent_type, name): the definition, or an error
type_field(schema, parent_type, name) ==
    IF parent_type \notin DOMAIN schema.types
    THEN Err("QueryParseFailure: parent type not found")
    ELSE IF name \notin DOMAIN schema.types[parent_type].fields
    THEN Err("QueryParseFailure: field not found on parent type")
    ELSE [ok |-> TRUE, def |-> schema.types[parent_type].fields[name]]

\* the (parent type, field) has a definition in the schema
has_type_field(schema, parent_type, name) ==
    /\ parent_type \in DOMAIN schema.types
    /\ name \in DOMAIN schema.types[parent_type].fields

\* schema.type_field_cost_directive(parent_type, name)
type_field_cost_directive(schema, parent_type, name) ==
    IF has_type_field(schema, parent_type, name)
    THEN schema.types[parent_type].fields[name].cost ELSE None

\* schema.type_field_list_size_directive(parent_type, name)
type_field_list_size_directive(schema, parent_type, name) ==
    IF has_type_field(schema, parent_type, name)
    THEN schema.types[parent_type].fields[name].list_size ELSE None

\* schema.type_field_requires_directive(parent_type, name).map(|d| &d.fields)
type_field_requires_directive(schema, parent_type, name) ==
    IF has_type_field(schema, parent_type, name)
    THEN schema.types[parent_type].fields[name].requires ELSE None

\* schema.root_operation(operation_type)
root_operation(schema, operation_type) == schema.roots[operation_type]

\* field.inner_type_def(schema)
inner_type_def(field, schema) ==
    IF field.ty.name \in DOMAIN schema.types
    THEN Some(schema.types[field.ty.name]) ELSE None

\* definition.argument_by_name(name)
argument_by_name(definition, name) ==
    IF name \in DOMAIN definition.arguments
    THEN Some(definition.arguments[name]) ELSE None

\* the integer the field passes for argument `name`, if it passes one
int_argument(field, name) ==
    LET hits == {i \in 1..Len(field.arguments) :
                    /\ field.arguments[i].name = name
                    /\ field.arguments[i].value.kind = "Int"}
    IN IF hits = {} THEN None
       ELSE Some(field.arguments[CHOOSE i \in hits : \A j \in hits : i <= j].value.int)

\* dir.with_field(field): the directive resolved for this use of the field;
\* a slicing argument the query passes supplies the size, else the assumed size
with_field(dir, field) ==
    LET sliced == IF dir.slicing_argument.some
                  THEN int_argument(field, dir.slicing_argument.v) ELSE None
    IN ListSize(IF sliced.some THEN sliced ELSE dir.assumed_size, dir.sized_fields)

\* dir.size_of(field): the size the directive of the enclosing field gives
\* this child, when the directive names it among its sized fields
size_of(dir, field) ==
    IF field.name \in dir.sized_fields THEN dir.expected_size ELSE None

\* IncludeDirective::from_field(field) is Ok(Some {is_included: false})
include_is_false(field) == field.include = "false"

\* SkipDirective::from_field(field) is Ok(Some {is_skipped: true})
skip_is_true(field) == field.skip = "true"

\* fragment_spread.fragment_def(executable)
fragment_def(fragment_spread, executable) ==
    IF fragment_spread.fragment_name \in DOMAIN executable.fragments
    THEN Some(executable.fragments[fragment_spread.fragment_name]) ELSE None

(***************************************************************************)
(* The selection scorer (static_cost.rs 124-376).                          *)
(***************************************************************************)
\* not the code: only @skip excludes a field
skipped_by_skip_alone(field) == skip_is_true(field)

\* skipped_by_directives (364-376)
skipped_by_directives(field) ==
    IF include_is_false(field) THEN TRUE
    ELSE IF skip_is_true(field) THEN TRUE
    ELSE FALSE

\* instance_count (152-164); list_size_directive is the Option resolved at 147-151
instance_count(self, field, list_size_from_upstream, list_size_directive) ==
    IF ~field.ty.list THEN 1
    ELSE IF list_size_from_upstream.some THEN list_size_from_upstream.v
    ELSE IF list_size_directive.some /\ list_size_directive.v.expected_size.some
    THEN list_size_directive.v.expected_size.v
    ELSE list_size_as_i32(self.list_size)

\* the field's own type cost, before its selections are added (168-176)
own_type_cost(cost_directive, ty) ==
    IF cost_directive.some THEN cost_directive.v
    ELSE IF ty.kind \in {"Interface", "Object", "Union"} THEN 1
    ELSE 0

\* not the code: the arguments multiplied by the instance count too
field_cost_multiplying_arguments(count, type_cost, arguments_cost, requirements_cost) ==
    count * (type_cost + arguments_cost) + requirements_cost

\* line 218
field_cost(count, type_cost, arguments_cost, requirements_cost) ==
    count * type_cost + arguments_cost + requirements_cost

\* the requirement estimation of lines 198-216 is entered
estimates_requires(should_estimate_requires) == should_estimate_requires

RECURSIVE score_field(_, _, _, _, _, _, _)
RECURSIVE score_selection(_, _, _, _, _, _, _)
RECURSIVE score_selection_set(_, _, _, _, _, _, _)
RECURSIVE score_selections_from(_, _, _, _, _, _, _, _, _)
RECURSIVE score_fragment_spread(_, _, _, _, _, _, _)
RECURSIVE score_inline_fragment(_, _, _, _, _, _, _)

\* the loop of lines 187-196 from argument i on
RECURSIVE score_field_arguments(_, _, _, _, _)
score_field_arguments(field, i, definition, schema, arguments_cost) ==
    IF i > Len(field.arguments) THEN Ok(arguments_cost)
    ELSE LET argument == field.arguments[i]
             argument_definition == argument_by_name(definition, argument.name)
         IN IF ~argument_definition.some
            THEN Err("QueryParseFailure: argument missing a definition")
            ELSE LET r == score_argument(argument.value, argument_definition.v, schema)
                 IN IF ~r.ok THEN r
                    ELSE score_field_arguments(field, i + 1, definition, schema,
                                               arguments_cost + r.cost)

\* score_field (124-230)
score_field(self, field, parent_type, schema, executable, should_estimate_requires, list_size_from_upstream) ==
    IF skipped_by_directives(field) THEN Ok(0)
    ELSE
    LET definition == type_field(schema, parent_type, field.name) IN
    IF ~definition.ok THEN definition
    ELSE
    LET ty == inner_type_def(field, schema) IN
    IF ~ty.some THEN Err("QueryParseFailure: field type missing from the schema")
    ELSE
    LET dir == type_field_list_size_directive(schema, parent_type, field.name)
        list_size_directive == IF dir.some THEN Some(with_field(dir.v, field)) ELSE None
        count == instance_count(self, field, list_size_from_upstream, list_size_directive)
        selections == score_selection_set(self, field.selection_set, field.ty.name,
                                          schema, executable, should_estimate_requires,
                                          list_size_directive)
    IN
    IF ~selections.ok THEN selections
    ELSE
    LET type_cost ==
            own_type_cost(type_field_cost_directive(schema, parent_type, field.name),
                          ty.v) + selections.cost
        arguments == score_field_arguments(field, 1, definition.def, schema, 0)
    IN
    IF ~arguments.ok THEN arguments
    ELSE
    LET requirements == IF estimates_requires(should_estimate_requires)
                        THEN type_field_requires_directive(schema, parent_type, field.name)
                        ELSE None
        required == IF requirements.some
                    THEN score_selection_set(self, requirements.v, parent_type, schema,
                                             executable, should_estimate_requires,
                                             list_size_directive)
                    ELSE Ok(0)
    IN
    IF ~required.ok THEN required
    ELSE Ok(field_cost(count, type_cost, arguments.cost, required.cost))

\* score_fragment_spread (232-255)
score_fragment_spread(self, fragment_spread, parent_type, schema, executable, should_estimate_requires, list_size_directive) ==
    LET fragment == fragment_def(fragment_spread, executable) IN
    IF ~fragment.some THEN Err("QueryParseFailure: no definition for fragment")
    ELSE score_selection_set(self, fragment.v.selection_set, parent_type, schema,
                             executable, should_estimate_requires, list_size_directive)

\* score_inline_fragment (257-274)
score_inline_fragment(self, inline_fragment, parent_type, schema, executable, should_estimate_requires, list_size_directive) ==
    score_selection_set(self, inline_fragment.selection_set, parent_type, schema,
                        executable, should_estimate_requires, list_size_directive)

\* score_selection (304-339)
score_selection(self, selection, parent_type, schema, executable, should_estimate_requires, list_size_directive) ==
    IF selection.kind = "Field"
    THEN score_field(self, selection, parent_type, schema, executable,
                     should_estimate_requires,
                     IF list_size_directive.some
                     THEN size_of(list_size_directive.v, selection) ELSE None)
    ELSE IF selection.kind = "FragmentSpread"
    THEN score_fragment_spread(self, selection, parent_type, schema, executable,
                               should_estimate_requires, list_size_directive)
    ELSE score_inline_fragment(self, selection,
                               IF selection.type_condition.some
                               THEN selection.type_condition.v ELSE parent_type,
                               schema, executable, should_estimate_requires,
                               list_size_directive)

\* the loop of lines 351-360 from selection i on
score_selections_from(self, selections, i, parent_type_name, schema, executable, should_estimate_requires, list_size_directive, cost) ==
    IF i > Len(selections) THEN Ok(cost)
    ELSE LET r == score_selection(self, selections[i], parent_type_name, schema,
                                  executable, should_estimate_requires,
                                  list_size_directive)
         IN IF ~r.ok THEN r
            ELSE score_selections_from(self, selections, i + 1, parent_type_name,
                                       schema, executable, should_estimate_requires,
                                       list_size_directive, cost + r.cost)

\* score_selection_set (341-362); a SelectionSet is the sequence of its selections
score_selection_set(self, selection_set, parent_type_name, schema, executable, should_estimate_requires, list_size_directive) ==
    score_selections_from(self, selection_set, 1, parent_type_name, schema, executable,
                          should_estimate_requires, list_size_directive, 0)

(***************************************************************************)
(* The operation scorer (276-302, 462-476).                                *)
(***************************************************************************)
\* not the code: no surcharge for any operation
operation_without_surcharge(operation) == 0

\* line 283
operation_surcharge(operation) ==
    IF operation.operation_type = "mutation" THEN 10 ELSE 0

\* score_operation (276-302)
score_operation(self, operation, schema, executable, should_estimate_requires) ==
    LET root_type_name == root_operation(schema, operation.operation_type) IN
    IF ~root_type_name.some
    THEN Err("QueryParseFailure: schema does not support this root type")
    ELSE LET r == score_selection_set(self, operation.selection_set, root_type_name.v,
                                      schema, executable, should_estimate_requires, None)
         IN IF ~r.ok THEN r ELSE Ok(operation_surcharge(operation) + r.cost)

\* the operations estimated visits, in its order: the anonymous one, then the named
operations_of(query) ==
    (IF query.anonymous.some THEN <<query.anonymous.v>> ELSE <<>>) \o query.named

\* the loops of lines 469-474 from operation i on
RECURSIVE score_operations_from(_, _, _, _, _, _, _)
score_operations_from(self, ops, i, schema, query, should_estimate_requires, cost) ==
    IF i > Len(ops) THEN Ok(cost)
    ELSE LET r == score_operation(self, ops[i], schema, query, should_estimate_requires)
         IN IF ~r.ok THEN r
            ELSE score_operations_from(self, ops, i + 1, schema, query,
                                       should_estimate_requires, cost + r.cost)

\* estimated (462-476)
estimated(self, query, schema, should_estimate_requires) ==
    score_operations_from(self, operations_of(query), 1, schema, query,
                          should_estimate_requires, 0)

(***************************************************************************)
(* The plan scorer (378-460, 478-480).                                     *)
(***************************************************************************)
\* Operation, ExecutableDocument, SubgraphOperation and the PlanNode variants
Operation(t, s) == [operation_type |-> t, selection_set |-> s]
Document(a, n, f) == [anonymous |-> a, named |-> n, fragments |-> f]
SubgraphOperation(p) == [parsed |-> p]
Fetch(s, o) == [kind |-> "Fetch", service_name |-> s, operation |-> o]
Subscription(p, r) == [kind |-> "Subscription", primary |-> p, rest |-> r]
Sequence(ns) == [kind |-> "Sequence", nodes |-> ns]
Parallel(ns) == [kind |-> "Parallel", nodes |-> ns]
Flatten(n) == [kind |-> "Flatten", node |-> n]
Condition(i, e) == [kind |-> "Condition", if_clause |-> i, else_clause |-> e]
Defer(p, d) == [kind |-> "Defer", primary |-> [node |-> p], deferred |-> d]
DeferredNode(n) == [node |-> n]

\* f64::max of line 432
f64_max(a, b) == IF a >= b THEN a ELSE b

\* not the code: requirement estimation left on for the leaves of a plan
leaf_estimating_requires == TRUE

\* the flag the leaf's sub-operation is estimated with (417)
leaf_estimates_requires == FALSE

\* not the code: a sub-operation that was never parsed costs nothing
estimated_cost_ignoring_unparsed(self, subgraph, operation) ==
    IF subgraph \notin DOMAIN self.subgraph_schemas
    THEN Err("QueryParseFailure: no schema for service")
    ELSE IF ~operation.parsed.some
    THEN Ok(0)
    ELSE estimated(self, operation.parsed.v, self.subgraph_schemas[subgraph],
                   leaf_estimates_requires)

\* estimated_cost_of_operation (400-418)
estimated_cost_of_operation(self, subgraph, operation) ==
    IF subgraph \notin DOMAIN self.subgraph_schemas
    THEN Err("QueryParseFailure: no schema for service")
    ELSE IF ~operation.parsed.some
    THEN Err("SubgraphOperationNotInitialized")
    ELSE estimated(self, operation.parsed.v, self.subgraph_schemas[subgraph],
                   leaf_estimates_requires)

RECURSIVE score_plan_node(_, _)
RECURSIVE summed_score_from(_, _, _, _)
RECURSIVE summed_deferred_from(_, _, _, _)

\* the loop of lines 456-458 from node i on
summed_score_from(self, nodes, i, sum) ==
    IF i > Len(nodes) THEN Ok(sum)
    ELSE LET r == score_plan_node(self, nodes[i])
         IN IF ~r.ok THEN r ELSE summed_score_from(self, nodes, i + 1, sum + r.cost)

\* summed_score_of_nodes (454-460)
summed_score_of_nodes(self, nodes) == summed_score_from(self, nodes, 1, 0)

\* the loop of lines 446-450 from deferred entry i on
summed_deferred_from(self, deferred, i, score) ==
    IF i > Len(deferred) THEN Ok(score)
    ELSE IF ~deferred[i].node.some
    THEN summed_deferred_from(self, deferred, i + 1, score)
    ELSE LET r == score_plan_node(self, deferred[i].node.v)
         IN IF ~r.ok THEN r
            ELSE summed_deferred_from(self, deferred, i + 1, score + r.cost)

\* not the code: the primary node of a Defer left out of the sum
summed_score_without_primary(self, primary, deferred) ==
    summed_deferred_from(self, deferred, 1, 0)

\* summed_score_of_deferred_nodes (437-452)
summed_score_of_deferred_nodes(self, primary, deferred) ==
    LET p == IF primary.node.some THEN score_plan_node(self, primary.node.v) ELSE Ok(0)
    IN IF ~p.ok THEN p ELSE summed_deferred_from(self, deferred, 1, p.cost)

\* max_score_of_nodes (420-435)
max_score_of_nodes(self, left, right) ==
    IF ~left.some /\ ~right.some THEN Ok(0)
    ELSE IF ~left.some THEN score_plan_node(self, right.v)
    ELSE IF ~right.some THEN score_plan_node(self, left.v)
    ELSE LET left_score == score_plan_node(self, left.v) IN
         IF ~left_score.ok THEN left_score
         ELSE LET right_score == score_plan_node(self, right.v) IN
              IF ~right_score.ok THEN right_score
              ELSE Ok(f64_max(left_score.cost, right_score.cost))

\* score_plan_node (378-398)
score_plan_node(self, plan_node) ==
    CASE plan_node.kind = "Sequence" -> summed_score_of_nodes(self, plan_node.nodes)
      [] plan_node.kind = "Parallel" -> summed_score_of_nodes(self, plan_node.nodes)
      [] plan_node.kind = "Flatten" -> score_plan_node(self, plan_node.node)
      [] plan_node.kind = "Condition" ->
            max_score_of_nodes(self, plan_node.if_clause, plan_node.else_clause)
      [] plan_node.kind = "Defer" ->
            summed_score_of_deferred_nodes(self, plan_node.primary, plan_node.deferred)
      [] plan_node.kind = "Fetch" ->
            estimated_cost_of_operation(self, plan_node.service_name, plan_node.operation)
      [] plan_node.kind = "Subscription" ->
            estimated_cost_of_operation(self, plan_node.primary.service_name,
                                        plan_node.primary.operation)

\* planned (478-480); a QueryPlan is its root node
planned(self, query_plan) == score_plan_node(self, query_plan)

(***************************************************************************)
(* The schemas the calculator is constructed with.                         *)
(***************************************************************************)
IntTy == Ty("Int", FALSE)

\* a field of the query without arguments, selections or directives
Leaf(n, t) == Field(n, t, <<>>, <<>>, "absent", "absent")

\* O.r: Int @requires(fields: "ps { y }")
RequiredByR == << Field("ps", Ty("P", TRUE), <<>>, << Leaf("y", IntTy) >>, "absent", "absent") >>

\* the arguments O.x declares: an input object and a weighted scalar
ArgumentsOfX ==
    [in |-> ArgDef("in", Ty("Inp", FALSE), None),
     n  |-> ArgDef("n", IntTy, Some(2))]

\* the arguments P.y declares: one of object type and one whose type the
\* schema does not define
ArgumentsOfY ==
    [ob |-> ArgDef("ob", Ty("P", FALSE), None),
     gh |-> ArgDef("gh", Ty("Ghost", FALSE), None)]

SupergraphTypes ==
    [Query |-> TypeDef("Object",
        [s  |-> FieldDef(IntTy, NoEntries, None, None, None),
         o  |-> FieldDef(Ty("O", FALSE), NoEntries, None, None, None),
         os |-> FieldDef(Ty("O", TRUE), NoEntries, None, None, None),
         ls |-> FieldDef(Ty("O", TRUE),
                         [first |-> ArgDef("first", IntTy, Some(1))], None,
                         Some(ListSizeDef(Some(3), Some("first"), {"ps"})), None),
         zs |-> FieldDef(Ty("O", TRUE), NoEntries, None,
                         Some(ListSizeDef(Some(0), None, {})), None)]),
     Mutation |-> TypeDef("Object",
        [m  |-> FieldDef(Ty("O", FALSE), NoEntries, Some(5), None, None)]),
     O |-> TypeDef("Object",
        [x  |-> FieldDef(IntTy, ArgumentsOfX, None, None, None),
         ps |-> FieldDef(Ty("P", TRUE), NoEntries, None,
                         Some(ListSizeDef(Some(2), None, {})), None),
         r  |-> FieldDef(IntTy, NoEntries, None, None, Some(RequiredByR)),
         k  |-> FieldDef(IntTy, NoEntries, Some(3), None, None),
         g  |-> FieldDef(Ty("Ghost", FALSE), NoEntries, None, None, None),
         i  |-> FieldDef(Ty("I", FALSE), NoEntries, None, None, None),
         u  |-> FieldDef(Ty("U", TRUE), NoEntries, None, None, None)]),
     P |-> TypeDef("Object",
        [y  |-> FieldDef(IntTy, ArgumentsOfY, None, None, None),
         w  |-> FieldDef(IntTy, NoEntries, None, None, None)]),
     I |-> TypeDef("Interface",
        [y  |-> FieldDef(IntTy, NoEntries, None, None, None)]),
     U |-> TypeDef("Union", NoEntries),
     E |-> TypeDef("Enum", NoEntries),
     Int |-> TypeDef("Scalar", NoEntries),
     Inp |-> TypeDef("InputObject",
        [a  |-> ArgDef("a", IntTy, Some(1)),
         b  |-> ArgDef("b", Ty("Inp", FALSE), None),
         e  |-> ArgDef("e", Ty("E", FALSE), None)])]

\* the schema has no subscription root
Supergraph ==
    [types |-> SupergraphTypes,
     roots |-> [query |-> Some("Query"), mutation |-> Some("Mutation"),
                subscription |-> None]]

\* an argument definition without its @cost
PlainArgDef(d) == [d EXCEPT !.cost = None]

\* a field definition without @cost, @listSize and @requires, on it or its arguments
PlainFieldDef(d) ==
    FieldDef(d.ty, [a \in DOMAIN d.arguments |-> PlainArgDef(d.arguments[a])],
             None, None, None)

\* the same schema with no @cost, @listSize or @requires anywhere
Plain(schema) ==
    [types |-> [t \in DOMAIN schema.types |->
                  LET d == schema.types[t] IN
                  TypeDef(d.kind,
                          [f \in DOMAIN d.fields |->
                             IF d.kind = "InputObject" THEN PlainArgDef(d.fields[f])
                             ELSE PlainFieldDef(d.fields[f])])],
     roots |-> schema.roots]

\* a schema without its @requires
WithoutRequires(schema) ==
    [schema EXCEPT !.types =
        [t \in DOMAIN @ |->
            IF @[t].kind \in {"Object", "Interface"}
            THEN [@[t] EXCEPT !.fields =
                    [f \in DOMAIN @ |-> [@[f] EXCEPT !.requires = None]]]
            ELSE @[t]]]

SupergraphSchemas == {Supergraph}

\* subgraph A declares O.k with @cost(weight: -3)
SubgraphA == [Supergraph EXCEPT !.types.O.fields.k.cost = Some(-3)]

\* the schemas of the subgraphs the planner names; no schema for any other service
SubgraphSchemas == [A |-> SubgraphA, B |-> Plain(Supergraph)]

\* configured default list sizes: 5, 100 and u32::MAX
ListSizes == {U32(0, 5), U32(0, 100), U32(65535, 65535)}

(***************************************************************************)
(* Enumerated argument values: every literal of at most n nodes.           *)
(***************************************************************************)
ValueLeaves == {VNull, VInt(7), VEnum("RED")}
InputFieldNames == {"a", "b", "q"}

\* no name is given twice in an object literal
DistinctNames(entries) ==
    \A i, j \in 1..Len(entries) : entries[i].name = entries[j].name => i = j

\* S \cup T; filtering S by TRUE has TLC sort S once, which makes the union a
\* merge rather than a search of S for each element of T
Cup(S, T) == {x \in S : TRUE} \cup T

\* sets[lo] \cup ... \cup sets[hi]
RECURSIVE CupOver(_, _, _)
CupOver(sets, lo, hi) == IF lo > hi THEN {} ELSE Cup(sets[lo], CupOver(sets, lo + 1, hi))

\* ValueTable(n)[k + 1], k in 0..n: the values of k nodes and, what they are
\* built from, the sequences of values and the object entries of k - 1 nodes in all
RECURSIVE ValueTable(_)
ValueTable(n) ==
    IF n = 0 THEN << [values |-> {}, seqs |-> {}, entries |-> {}] >>
    ELSE LET prev == ValueTable(n - 1)
             seqsOf(k) == {<<v>> \o rest : v \in prev[k + 1].values,
                                           rest \in prev[n - k + 1].seqs}
             entriesOf(k) == {e \in {<<Arg(nm, v)>> \o rest :
                                        nm \in InputFieldNames, v \in prev[k + 1].values,
                                        rest \in prev[n - k + 1].entries} :
                                 DistinctNames(e)}
             seqs == IF n = 1 THEN {<<>>} ELSE CupOver([k \in 1..(n - 1) |-> seqsOf(k)], 1, n - 1)
             entries == IF n = 1 THEN {<<>>}
                        ELSE CupOver([k \in 1..(n - 1) |-> entriesOf(k)], 1, n - 1)
             values == Cup({VList(is) : is \in seqs},
                           Cup({VObject(fs) : fs \in entries},
                               IF n = 1 THEN ValueLeaves ELSE {}))
         IN Append(prev, [values |-> values, seqs |-> seqs, entries |-> entries])

ValuesBySize == ValueTable(MaxValueNodes)

\* the literals of n nodes
ValuesOfSize(n) == ValuesBySize[n + 1].values

\* the literals of at most MaxValueNodes nodes
Values == CupOver([k \in 1..MaxValueNodes |-> ValuesOfSize(k)], 1, MaxValueNodes)

\* the argument definitions score_argument is called with
ArgDefs ==
    {ArgumentsOfX[a] : a \in DOMAIN ArgumentsOfX}
    \cup {ArgumentsOfY[a] : a \in DOMAIN ArgumentsOfY}
    \cup {ArgDef("in", Ty("Inp", FALSE), Some(3)),
          ArgDef("ins", Ty("Inp", TRUE), None),
          ArgDef("n", IntTy, None),
          ArgDef("neg", IntTy, Some(-1)),
          ArgDef("e", Ty("E", FALSE), Some(4)),
          ArgDef("i", Ty("I", FALSE), Some(2)),
          ArgDef("u", Ty("U", FALSE), None)}

(***************************************************************************)
(* Enumerated selection sets: every selection set of at most n selections  *)
(* (nested ones included) built from the fields below.                     *)
(***************************************************************************)
\* uses of O.x with an argument: a well-formed input object, and an input
\* object naming a field Inp does not have
UsesOfXWithArguments ==
    {Field("x", IntTy, <<Arg("in", VObject(<<Arg("a", VInt(7))>>))>>, <<>>, "absent", "absent"),
     Field("x", IntTy, <<Arg("in", VObject(<<Arg("q", VInt(7))>>))>>, <<>>, "absent", "absent")}

\* uses of P.y with an argument: one y does not declare, one whose type is
\* missing from the schema, one of object type
UsesOfYWithArguments ==
    {Field("y", IntTy, <<Arg("q", VInt(7))>>, <<>>, "absent", "absent"),
     Field("y", IntTy, <<Arg("gh", VInt(7))>>, <<>>, "absent", "absent"),
     Field("y", IntTy, <<Arg("ob", VNull)>>, <<>>, "absent", "absent")}

\* the fields a query may select on `parent`; "zz" has no definition anywhere,
\* "g" has a return type the schema does not define
HeadsOf(parent) ==
    CASE parent = "Query" ->
            {Leaf("s", IntTy), Leaf("o", Ty("O", FALSE)), Leaf("os", Ty("O", TRUE)),
             Leaf("zs", Ty("O", TRUE)), Leaf("zz", IntTy)}
      [] parent = "Mutation" -> {Leaf("m", Ty("O", FALSE))}
      [] parent = "Subscription" -> {Leaf("s", IntTy)}
      [] parent = "O" ->
            {Leaf("x", IntTy), Leaf("ps", Ty("P", TRUE)), Leaf("r", IntTy),
             Leaf("k", IntTy), Leaf("g", Ty("Ghost", FALSE)),
             Field("zz", IntTy, <<>>, <<>>, "absent", "false")}
            \cup UsesOfXWithArguments
      [] parent = "P" -> {Leaf("y", IntTy), Leaf("zz", IntTy)} \cup UsesOfYWithArguments
      [] parent = "I" -> {Leaf("y", IntTy)}
      [] OTHER -> {}

\* the fragment spreads a query may hold under `parent`: F is defined, G is not
SpreadsOf(parent) ==
    IF parent = "O" THEN {FragmentSpread("F"), FragmentSpread("G")} ELSE {}

\* the type conditions of the inline fragments a query may hold under `parent`
InlineConditionsOf(parent) ==
    IF parent = "O" THEN {None, Some("P")} ELSE {}

\* the types a selection set can be scored against
SelectionParents == {"Query", "Mutation", "Subscription", "O", "P", "I"}

\* the fields of a query under `parent` that return type t, with the selection
\* sets `sets` under them
FieldsWith(parent, t, sets) ==
    {[h EXCEPT !.selection_set = ss] : h \in {f \in HeadsOf(parent) : f.ty.name = t},
                                       ss \in sets}

\* the inline fragments under `parent` with type condition tc, when a query may
\* hold such
InlineFragmentsWith(parent, tc, sets) ==
    IF tc \in InlineConditionsOf(parent)
    THEN {InlineFragment(tc, ss) : ss \in sets} ELSE {}

\* the single selections of n nodes under `parent`, given the selection sets of
\* fewer nodes: table[k + 1][t] holds those of k nodes under type t
SelectionsFrom(table, parent, n) ==
    IF n = 1 THEN HeadsOf(parent) \cup SpreadsOf(parent)
    ELSE Cup(FieldsWith(parent, "O", table[n].O),
         Cup(FieldsWith(parent, "P", table[n].P),
         Cup(FieldsWith(parent, "I", table[n].I),
         Cup(InlineFragmentsWith(parent, None, table[n][parent]),
             InlineFragmentsWith(parent, Some("P"), table[n].P)))))

\* SelectionTable(n)[k + 1][t], k in 0..n: the selection sets of k nodes under t
RECURSIVE SelectionTable(_)
SelectionTable(n) ==
    IF n = 0 THEN << [t \in SelectionParents |-> {<<>>}] >>
    ELSE LET prev == SelectionTable(n - 1)
             setsOf(t) ==
                LET startingWith(k) == {<<sel>> \o rest :
                                           sel \in SelectionsFrom(prev, t, k),
                                           rest \in prev[n - k + 1][t]}
                IN CupOver([k \in 1..n |-> startingWith(k)], 1, n)
         IN Append(prev, [t \in SelectionParents |-> setsOf(t)])

SelectionSetsBySize == SelectionTable(MaxNodes)

\* the selection sets of n nodes in all under `parent`
SelectionSetsOfSize(parent, n) == SelectionSetsBySize[n + 1][parent]

\* the single selections of n nodes under `parent`
SelectionsOfSize(parent, n) == SelectionsFrom(SelectionSetsBySize, parent, n)

\* the selection sets of at most n nodes
SelectionSetsUpTo(parent, n) ==
    LET ofSize(k) == SelectionSetsOfSize(parent, k) IN CupOver([k \in 0..n |-> ofSize(k)], 0, n)

\* the fragment definitions of every enumerated document: F on O, and H on
\* P, an object type of the interface I, selecting a field I does not have
Fragments ==
    [F |-> [type_condition |-> "O",
            selection_set |-> << Leaf("x", IntTy),
                                 Field("ps", Ty("P", TRUE), <<>>, << Leaf("y", IntTy) >>,
                                       "absent", "absent") >>],
     H |-> [type_condition |-> "P",
            selection_set |-> << Leaf("w", IntTy) >>]]

\* the root type a valid query of each kind selects on
RootOf(operation_type) ==
    CASE operation_type = "query" -> "Query"
      [] operation_type = "mutation" -> "Mutation"
      [] operation_type = "subscription" -> "Subscription"

OperationTypes == <<"query", "mutation", "subscription">>

\* the operations of exactly n selections
OperationsOfSize(n) ==
    LET ofType(i) == {Operation(OperationTypes[i], ss) :
                         ss \in SelectionSetsOfSize(RootOf(OperationTypes[i]), n)}
    IN CupOver([k \in 1..(Len(OperationTypes)) |-> ofType(k)], 1, Len(OperationTypes))

\* the operations of at most n selections
OperationsUpTo(n) == CupOver([k \in 0..n |-> OperationsOfSize(k)], 0, n)

\* query { o { i { ...H } } }: a fragment on an object type spread under
\* the interface it implements
SpreadUnderInterface ==
    Document(Some(Operation("query",
                 << Field("o", Ty("O", FALSE), <<>>,
                          << Field("i", Ty("I", FALSE), <<>>, << FragmentSpread("H") >>,
                                   "absent", "absent") >>,
                          "absent", "absent") >>)),
             <<>>, Fragments)

\* the documents of two operations, of i and of j selections
DocumentsOfTwo(i, j) ==
    LET first == OperationsOfSize(i)
        second == OperationsOfSize(j)
    IN Cup({Document(Some(a), <<b>>, Fragments) : a \in first, b \in second},
           {Document(None, <<a, b>>, Fragments) : a \in first, b \in second})

\* documents: no operation, one operation (anonymous or named) of at most
\* MaxNodes selections, or two operations of fewer than MaxNodes selections
\* between them
Documents ==
    LET single == OperationsUpTo(MaxNodes)
        twoWith(i) == LET andWith(j) == DocumentsOfTwo(i, j)
                      IN CupOver([k \in 0..(MaxNodes - 1 - i) |-> andWith(k)], 0, MaxNodes - 1 - i)
    IN Cup({Document(None, <<>>, Fragments), SpreadUnderInterface},
       Cup({Document(Some(op), <<>>, Fragments) : op \in single},
       Cup({Document(None, <<op>>, Fragments) : op \in single},
           CupOver([k \in 0..(MaxNodes - 1) |-> twoWith(k)], 0, MaxNodes - 1))))

(***************************************************************************)
(* Enumerated query plans: every plan of at most n nodes over the leaves   *)
(* below.                                                                  *)
(***************************************************************************)
\* a document holding one anonymous query
QueryOf(selection_set) ==
    Document(Some(Operation("query", selection_set)), <<>>, Fragments)

\* query { o { r } }: r carries @requires in subgraph A
OpRequires == SubgraphOperation(Some(QueryOf(
    << Field("o", Ty("O", FALSE), <<>>, << Leaf("r", IntTy) >>, "absent", "absent") >>)))

\* query { o { k } }: k carries a negative @cost in subgraph A
OpWeighted == SubgraphOperation(Some(QueryOf(
    << Field("o", Ty("O", FALSE), <<>>, << Leaf("k", IntTy) >>, "absent", "absent") >>)))

\* query { os { ps { y } } }
OpLists == SubgraphOperation(Some(QueryOf(
    << Field("os", Ty("O", TRUE), <<>>,
             << Field("ps", Ty("P", TRUE), <<>>, << Leaf("y", IntTy) >>, "absent", "absent") >>,
             "absent", "absent") >>)))

\* query { zz }: no subgraph defines zz
OpUnknownField == SubgraphOperation(Some(QueryOf(<< Leaf("zz", IntTy) >>)))

\* a sub-operation that was never parsed
OpUnparsed == SubgraphOperation(None)

\* subgraph "C" has no schema
FetchLeaves ==
    {Fetch("A", OpRequires), Fetch("A", OpWeighted), Fetch("B", OpLists),
     Fetch("A", OpUnknownField), Fetch("A", OpUnparsed), Fetch("C", OpRequires)}

PlanLeaves ==
    FetchLeaves
    \cup {Subscription(Fetch("A", OpRequires), Some(Fetch("B", OpLists))),
          Subscription(Fetch("B", OpLists), None)}

\* PlanTable(n)[k + 1], k in 0..n: the plans of k nodes and, what they are built
\* from, the sequences of plans and of deferred entries of k - 1 nodes in all
\* (a deferred entry without a node counts for one)
RECURSIVE PlanTable(_)
PlanTable(n) ==
    IF n = 0 THEN << [plans |-> {}, seqs |-> {}, deferred |-> {}] >>
    ELSE LET prev == PlanTable(n - 1)
             optional(k) == IF k = 0 THEN {None} ELSE {Some(p) : p \in prev[k + 1].plans}
             seqsOf(k) == {<<p>> \o rest : p \in prev[k + 1].plans,
                                           rest \in prev[n - k + 1].seqs}
             deferredOf(k) ==
                {<<d>> \o rest :
                    d \in Cup({DeferredNode(Some(p)) : p \in prev[k + 1].plans},
                              IF k = 1 THEN {DeferredNode(None)} ELSE {}),
                    rest \in prev[n - k + 1].deferred}
             seqs == IF n = 1 THEN {<<>>} ELSE CupOver([k \in 1..(n - 1) |-> seqsOf(k)], 1, n - 1)
             deferred == IF n = 1 THEN {<<>>}
                         ELSE CupOver([k \in 1..(n - 1) |-> deferredOf(k)], 1, n - 1)
             conditions(k) == {Condition(i, e) : i \in optional(k),
                                                 e \in optional(n - 1 - k)}
             defers(k) == {Defer(p, d) : p \in optional(k),
                                        d \in IF k = 0 THEN deferred
                                               ELSE prev[n - k + 1].deferred}
             plans ==
                Cup(IF n = 1 THEN PlanLeaves ELSE {Flatten(p) : p \in prev[n].plans},
                Cup({Sequence(ns) : ns \in seqs},
                Cup({Parallel(ns) : ns \in seqs},
                Cup(CupOver([k \in 0..(n - 1) |-> conditions(k)], 0, n - 1),
                    CupOver([k \in 0..(n - 1) |-> defers(k)], 0, n - 1)))))
         IN Append(prev, [plans |-> plans, seqs |-> seqs, deferred |-> deferred])

PlansBySize == PlanTable(MaxPlanNodes)

\* the plans of n nodes
PlansOfSize(n) == PlansBySize[n + 1].plans

\* the plans of at most MaxPlanNodes nodes
Plans == CupOver([k \in 1..MaxPlanNodes |-> PlansOfSize(k)], 1, MaxPlanNodes)

(***************************************************************************)
(* The calls of score_field: every enumerated field against its parent,    *)
(* and against a parent that does not define it.                           *)
(***************************************************************************)
\* further uses of (parent, field) that score_field is called with directly
FurtherFields(parent) ==
    CASE parent = "Query" ->
            {Field("ls", Ty("O", TRUE), <<>>,
                   << Field("ps", Ty("P", TRUE), <<>>, << Leaf("y", IntTy) >>,
                            "absent", "absent") >>, "absent", "absent"),
             Field("ls", Ty("O", TRUE), <<Arg("first", VInt(4))>>,
                   << Field("ps", Ty("P", TRUE), <<>>, << Leaf("y", IntTy) >>,
                            "absent", "absent") >>, "absent", "absent"),
             Field("os", Ty("O", TRUE), <<>>, << Leaf("zz", IntTy) >>, "absent", "false"),
             Field("os", Ty("O", TRUE), <<>>, << Leaf("x", IntTy) >>, "variable", "true"),
             Field("os", Ty("O", TRUE), <<>>, << Leaf("x", IntTy) >>, "true", "absent")}
      [] parent = "O" ->
            {Leaf("i", Ty("I", FALSE)), Leaf("u", Ty("U", TRUE)),
             Field("x", IntTy, <<Arg("n", VInt(7)), Arg("in", VObject(<<>>))>>, <<>>,
                   "false", "absent"),
             Field("x", IntTy, <<Arg("q", VInt(7))>>, <<>>, "true", "true"),
             Field("g", Ty("Ghost", FALSE), <<>>, <<>>, "true", "absent"),
             Field("r", IntTy, <<>>, <<>>, "absent", "false"),
             Field("ps", Ty("P", TRUE), <<>>, << Leaf("y", IntTy) >>, "false", "variable")}
      [] OTHER -> {}

ParentTypes == <<"Query", "Mutation", "O", "P", "I">>

FieldsOf(parent) ==
    LET ofSize(n) == SelectionsOfSize(parent, n)
    IN Cup({f \in CupOver([k \in 1..MaxNodes |-> ofSize(k)], 1, MaxNodes) : f.kind = "Field"},
           FurtherFields(parent))

\* the (parent type, field) pairs score_field is called with
FieldCalls ==
    LET under(i) == {<<ParentTypes[i], f>> : f \in FieldsOf(ParentTypes[i])}
    IN CupOver([k \in 1..(Len(ParentTypes)) |-> under(k)], 1, Len(ParentTypes))

\* the sizes an enclosing @listSize may supply
UpstreamSizes == {None, Some(0), Some(4)}

(***************************************************************************)
(* The response visitor (static_cost.rs 482-560) and the walk of the       *)
(* response it rides on (the ResponseVisitor trait).                       *)
(***************************************************************************)
\* serde_json_bytes::Value
RNull == [kind |-> "Null"]
RNumber == [kind |-> "Number"]
RArray(items) == [kind |-> "Array", items |-> items]
RObject(children) == [kind |-> "Object", children |-> children]

\* graphql::Response: its data, if any
Response(data) == [data |-> data]

\* ResponseCostCalculator::new (499-501)
ResponseCostCalculator_new(schema) == [cost |-> 0, schema |-> schema]

\* self.cost += score
add_cost(visitor, score) == [visitor EXCEPT !.cost = @ + score]

\* the body of the loop of lines 515-531 for one argument: the score of an
\* argument that resolves and scores, nothing for any other
visit_argument(visitor, argument, definition) ==
    IF ~definition.ok THEN visitor
    ELSE LET argument_definition == argument_by_name(definition.def, argument.name)
         IN IF ~argument_definition.some THEN visitor
            ELSE LET score == score_argument(argument.value, argument_definition.v,
                                             visitor.schema)
                 IN IF score.ok THEN add_cost(visitor, score.cost) ELSE visitor

\* an argument resolves and scores
argument_scores(visitor, argument, definition) ==
    /\ definition.ok
    /\ argument_by_name(definition.def, argument.name).some
    /\ score_argument(argument.value, argument_by_name(definition.def, argument.name).v,
                      visitor.schema).ok

RECURSIVE visit_arguments_from(_, _, _, _)
RECURSIVE visit_arguments_until_failure(_, _, _, _)

\* not the code: the first argument that does not score ends the loop
visit_arguments_until_failure(visitor, field, definition, i) ==
    IF i > Len(field.arguments) THEN visitor
    ELSE IF ~argument_scores(visitor, field.arguments[i], definition) THEN visitor
    ELSE visit_arguments_until_failure(
             visit_argument(visitor, field.arguments[i], definition), field, definition, i + 1)

\* the loop of lines 515-531 from argument i on
visit_arguments_from(visitor, field, definition, i) ==
    IF i > Len(field.arguments) THEN visitor
    ELSE visit_arguments_from(visit_argument(visitor, field.arguments[i], definition),
                              field, definition, i + 1)

\* lines 514-531: the arguments of the field visited
visit_arguments(visitor, field, definition) ==
    visit_arguments_from(visitor, field, definition, 1)

RECURSIVE visit_list_item(_, _, _, _, _)
RECURSIVE visit_items_from(_, _, _, _, _, _)
RECURSIVE visit_selections(_, _, _, _, _)
RECURSIVE visit_selections_from(_, _, _, _, _, _)

\* the loop of lines 550-552 from item i on
visit_items_from(visitor, request, parent_ty, field, items, i) ==
    IF i > Len(items) THEN visitor
    ELSE visit_items_from(visit_list_item(visitor, request, parent_ty, field, items[i]),
                          request, parent_ty, field, items, i + 1)

\* not the code: an array counted as its first item alone
visit_array_as_one_item(visitor, request, parent_ty, field, items) ==
    IF items = <<>> THEN visitor
    ELSE visit_list_item(visitor, request, parent_ty, field, items[1])

\* the Value::Array arm (549-553)
visit_array(visitor, request, parent_ty, field, items) ==
    visit_items_from(visitor, request, parent_ty, field, items, 1)

\* visit_field (505-532)
visit_field(visitor, request, parent_ty, field, value) ==
    visit_arguments(visit_list_item(visitor, request, parent_ty, field, value), field,
                    type_field(visitor.schema, parent_ty, field.name))

\* visit_list_item (534-559)
visit_list_item(visitor, request, parent_ty, field, value) ==
    LET cost_directive == type_field_cost_directive(visitor.schema, parent_ty, field.name)
    IN CASE value.kind \in {"Null", "Bool", "Number", "String"} ->
                add_cost(visitor, weight_or(cost_directive, 0))
         [] value.kind = "Array" ->
                visit_array(visitor, request, parent_ty, field, value.items)
         [] value.kind = "Object" ->
                visit_selections(add_cost(visitor, weight_or(cost_directive, 1)), request,
                                 field.selection_set, field.ty.name, value.children)

\* ResponseVisitor::visit_selections from selection i on: a field is visited
\* with the child of its name, if the object has one; a fragment's and an
\* inline fragment's selections are visited against the same children
visit_selections_from(visitor, request, selection_set, ty, fields, i) ==
    IF i > Len(selection_set) THEN visitor
    ELSE LET selection == selection_set[i]
             fragment == fragment_def(selection, request)
             after ==
                IF selection.kind = "Field"
                THEN IF selection.name \in DOMAIN fields
                     THEN visit_field(visitor, request, ty, selection, fields[selection.name])
                     ELSE visitor
                ELSE IF selection.kind = "FragmentSpread"
                THEN IF fragment.some
                     THEN visit_selections(visitor, request, fragment.v.selection_set,
                                           fragment.v.type_condition, fields)
                     ELSE visitor
                ELSE visit_selections(visitor, request, selection.selection_set,
                                      IF selection.type_condition.some
                                      THEN selection.type_condition.v ELSE ty, fields)
         IN visit_selections_from(after, request, selection_set, ty, fields, i + 1)

\* ResponseVisitor::visit_selections; ty is the type the selection set selects on
visit_selections(visitor, request, selection_set, ty, fields) ==
    visit_selections_from(visitor, request, selection_set, ty, fields, 1)

\* ResponseVisitor::visit from operation i on
RECURSIVE visit_operations_from(_, _, _, _, _)
visit_operations_from(visitor, request, ops, fields, i) ==
    IF i > Len(ops) THEN visitor
    ELSE visit_operations_from(
             visit_selections(visitor, request, ops[i].selection_set,
                              RootOf(ops[i].operation_type), fields),
             request, ops, fields, i + 1)

\* ResponseVisitor::visit: the selections of every operation of the request
\* against the children of the response's data, when the data is an object
visit(visitor, request, response) ==
    IF response.data.some /\ response.data.v.kind = "Object"
    THEN visit_operations_from(visitor, request, operations_of(request),
                               response.data.v.children, 1)
    ELSE visitor

\* actual (482-490)
actual(self, request, response) ==
    Ok(visit(ResponseCostCalculator_new(self.supergraph_schema), request, response).cost)

(***************************************************************************)
(* The calls of actual: requests, and for each the responses an executor   *)
(* can give it, with arrays of at most MaxItems items.                     *)
(***************************************************************************)
\* the fields a selection set asks of one object, fragments followed
RECURSIVE FieldsAskedFrom(_, _, _)
FieldsAskedFrom(selection_set, i, request) ==
    IF i > Len(selection_set) THEN <<>>
    ELSE LET s == selection_set[i]
             fragment == fragment_def(s, request)
             here == IF s.kind = "Field" THEN <<s>>
                     ELSE IF s.kind = "FragmentSpread"
                     THEN IF fragment.some
                          THEN FieldsAskedFrom(fragment.v.selection_set, 1, request)
                          ELSE <<>>
                     ELSE FieldsAskedFrom(s.selection_set, 1, request)
         IN here \o FieldsAskedFrom(selection_set, i + 1, request)

\* an object without children
NoChildren == [n \in {} |-> RNull]

RECURSIVE ChildrenOf(_, _, _, _)
RECURSIVE ValuesOf(_, _, _)

\* the children an object can hold for fields[i..]: for each name asked a
\* value of the first field asking it, or, outside every array, no child;
\* inside an array (`under`) every item is complete
ChildrenOf(fields, i, request, under) ==
    IF i > Len(fields) THEN {NoChildren}
    ELSE LET rest == ChildrenOf(fields, i + 1, request, under)
             f == fields[i]
         IN IF \E j \in 1..(i - 1) : fields[j].name = f.name THEN rest
            ELSE Cup({(f.name :> v) @@ m : v \in ValuesOf(f, request, under), m \in rest},
                     IF under THEN {} ELSE rest)

\* the values a response can hold for the field: null, a scalar for a field
\* without selections and an object for one with, or an array of them for a
\* field of list type
ValuesOf(field, request, under) ==
    LET objects == {RObject(c) :
                       c \in ChildrenOf(FieldsAskedFrom(field.selection_set, 1, request), 1,
                                        request, under \/ field.ty.list)}
        whole == IF field.selection_set = <<>> THEN {RNumber} ELSE objects
        items == IF under THEN whole ELSE Cup(whole, {RNull})
        arraysOf(n) == IF under THEN {RArray([k \in 1..n |-> item]) : item \in items}
                       ELSE {RArray(s) : s \in [1..n -> items]}
    IN IF ~field.ty.list THEN items
       ELSE Cup(CupOver([n \in 0..MaxItems |-> arraysOf(n)], 0, MaxItems),
                IF under THEN {} ELSE {RNull})

\* the responses to a request: no data, null data, or an object answering
\* the selections of its operations
ResponsesTo(request) ==
    LET ops == operations_of(request)
        asked(i) == FieldsAskedFrom(ops[i].selection_set, 1, request)
        fields == IF Len(ops) = 0 THEN <<>>
                  ELSE IF Len(ops) = 1 THEN asked(1) ELSE asked(1) \o asked(2)
    IN Cup({Response(Some(RObject(c))) : c \in ChildrenOf(fields, 1, request, FALSE)},
           {Response(None), Response(Some(RNull))})

\* query { ls(first: 4) { x } }: a sliced list behind a weighted argument
RequestSliced == QueryOf(
    << Field("ls", Ty("O", TRUE), <<Arg("first", VInt(4))>>, << Leaf("x", IntTy) >>,
             "absent", "absent") >>)

\* query { os { ps { y } } }: a list under a list
RequestLists == QueryOf(
    << Field("os", Ty("O", TRUE), <<>>,
             << Field("ps", Ty("P", TRUE), <<>>, << Leaf("y", IntTy) >>, "absent", "absent") >>,
             "absent", "absent") >>)

\* query { os { x(n: 7) } }: an argument on a field under a list
RequestArgumentUnderList == QueryOf(
    << Field("os", Ty("O", TRUE), <<>>,
             << Field("x", IntTy, <<Arg("n", VInt(7))>>, <<>>, "absent", "absent") >>,
             "absent", "absent") >>)

\* query { o { x(in: {q: 7}, n: 7) k } }: Inp has no field q
RequestFailingArgument == QueryOf(
    << Field("o", Ty("O", FALSE), <<>>,
             << Field("x", IntTy,
                      <<Arg("in", VObject(<<Arg("q", VInt(7))>>)),
                        Arg("n", VInt(7))>>, <<>>, "absent", "absent"),
                Leaf("k", IntTy) >>,
             "absent", "absent") >>)

\* query { o { x(q: 7, n: 7) zz(n: 7) { y } } }: x declares no argument q, O no field zz
RequestUndefined == QueryOf(
    << Field("o", Ty("O", FALSE), <<>>,
             << Field("x", IntTy, <<Arg("q", VInt(7)), Arg("n", VInt(7))>>, <<>>,
                      "absent", "absent"),
                Field("zz", Ty("P", FALSE), <<Arg("n", VInt(7))>>, << Leaf("y", IntTy) >>,
                      "absent", "absent") >>,
             "absent", "absent") >>)

\* query { o { k @skip(if: true) k } }
RequestSkipped == QueryOf(
    << Field("o", Ty("O", FALSE), <<>>,
             << Field("k", IntTy, <<>>, <<>>, "true", "absent"), Leaf("k", IntTy) >>,
             "absent", "absent") >>)

\* query { o { ...F i { ... on P { y } } } }
RequestFragments == QueryOf(
    << Field("o", Ty("O", FALSE), <<>>,
             << FragmentSpread("F"),
                Field("i", Ty("I", FALSE), <<>>,
                      << InlineFragment(Some("P"), << Leaf("y", IntTy) >>) >>,
                      "absent", "absent") >>,
             "absent", "absent") >>)

\* query { zs { x } } and mutation M { m { x } }: an empty list by @listSize,
\* and a weighted object
RequestTwoOperations ==
    Document(Some(Operation("query",
                 << Field("zs", Ty("O", TRUE), <<>>, << Leaf("x", IntTy) >>,
                          "absent", "absent") >>)),
             << Operation("mutation",
                 << Field("m", Ty("O", FALSE), <<>>, << Leaf("x", IntTy) >>,
                          "absent", "absent") >>) >>,
             Fragments)

Requests ==
    {RequestSliced, RequestLists, RequestArgumentUnderList, RequestFailingArgument,
     RequestUndefined, RequestSkipped, RequestFragments, RequestTwoOperations}

\* the (request, response) pairs actual is called with
ActualCalls == UNION {{<<request, response>> : response \in ResponsesTo(request)} : request \in Requests}

(***************************************************************************)
(* The state machine: the calculator after `new`, and one call at a time.  *)
(***************************************************************************)
\* &self
Self ==
    [list_size |-> list_size, supergraph_schema |-> supergraph_schema,
     subgraph_schemas |-> subgraph_schemas]

NoCall == [fn |-> "none"]
NoResult == [ok |-> FALSE, err |-> "no call"]

\* StaticCostCalculator::new (94-104)
Init ==
    /\ list_size \in ListSizes
    /\ supergraph_schema \in SupergraphSchemas
    /\ subgraph_schemas = SubgraphSchemas
    /\ pc = "idle"
    /\ call = NoCall
    /\ result = NoResult
    /\ stack = <<>>

\* a call of score_argument against the supergraph schema
CallScoreArgument ==
    /\ pc = "idle"
    /\ \E argument \in Values, argument_definition \in ArgDefs :
          /\ call' = [fn |-> "score_argument", argument |-> argument,
                      argument_definition |-> argument_definition]
          /\ result' = score_argument(argument, argument_definition, supergraph_schema)
    /\ pc' = "done"
    /\ UNCHANGED <<list_size, supergraph_schema, subgraph_schemas, stack>>

\* a call of score_field against the supergraph schema
CallScoreField ==
    /\ pc = "idle"
    /\ \E parent_and_field \in FieldCalls, should_estimate_requires \in BOOLEAN,
          list_size_from_upstream \in UpstreamSizes :
          LET parent_type == parent_and_field[1]
              field == parent_and_field[2]
          IN /\ call' = [fn |-> "score_field", field |-> field,
                         parent_type |-> parent_type,
                         should_estimate_requires |-> should_estimate_requires,
                         list_size_from_upstream |-> list_size_from_upstream]
             /\ result' = score_field(Self, field, parent_type, supergraph_schema,
                                      Document(None, <<>>, Fragments),
                                      should_estimate_requires, list_size_from_upstream)
    /\ pc' = "done"
    /\ UNCHANGED <<list_size, supergraph_schema, subgraph_schemas, stack>>

\* a call of estimated on the supergraph schema
CallEstimated ==
    /\ pc = "idle"
    /\ \E query \in Documents, should_estimate_requires \in BOOLEAN :
          /\ call' = [fn |-> "estimated", query |-> query,
                      should_estimate_requires |-> should_estimate_requires]
          /\ result' = estimated(Self, query, supergraph_schema, should_estimate_requires)
    /\ pc' = "done"
    /\ UNCHANGED <<list_size, supergraph_schema, subgraph_schemas, stack>>

\* a call of actual
CallActual ==
    /\ pc = "idle"
    /\ \E request_and_response \in ActualCalls :
          LET request == request_and_response[1]
              response == request_and_response[2]
          IN /\ call' = [fn |-> "actual", request |-> request, response |-> response]
             /\ result' = actual(Self, request, response)
    /\ pc' = "done"
    /\ UNCHANGED <<list_size, supergraph_schema, subgraph_schemas, stack>>

\* a call of planned
CallPlanned ==
    /\ pc = "idle"
    /\ \E query_plan \in Plans :
          /\ call' = [fn |-> "planned", query_plan |-> query_plan]
          /\ result' = planned(Self, query_plan)
    /\ pc' = "done"
    /\ UNCHANGED <<list_size, supergraph_schema, subgraph_schemas, stack>>

\* the caller takes the result; the calculator keeps nothing of the call
Return ==
    /\ pc = "done"
    /\ pc' = "idle"
    /\ call' = NoCall
    /\ result' = NoResult
    /\ UNCHANGED <<list_size, supergraph_schema, subgraph_schemas, stack>>

Next ==
    \/ CallScoreArgument
    \/ CallScoreField
    \/ CallEstimated
    \/ CallPlanned
    \/ CallActual
    \/ Return

Spec == Init /\ [][Next]_vars

\* the calculator constructed over a supergraph schema without any @cost,
\* @listSize or @requires
PlainInit ==
    /\ list_size \in ListSizes
    /\ supergraph_schema = Plain(Supergraph)
    /\ subgraph_schemas = SubgraphSchemas
    /\ pc = "idle"
    /\ call = NoCall
    /\ result = NoResult
    /\ stack = <<>>

EstimatedNext ==
    \/ CallEstimated
    \/ Return

\* the calls of estimated on that calculator
PlainSpec == PlainInit /\ [][EstimatedNext]_vars

(***************************************************************************)
(* estimated step by step: the calls of score_selection_set that are in    *)
(* progress, each made by the one before it.                               *)
(***************************************************************************)
\* O.r: Int @requires(fields: "r")
SelfRequiring ==
    [Supergraph EXCEPT !.types.O.fields.r.requires = Some(<< Leaf("r", IntTy) >>)]

RequiringSchemas == {Supergraph, SelfRequiring}

\* query { o { r } }, { os { ps { y } } }, { o { ...F } }, { o { i { ... on P { y } } } }
DescentDocuments ==
    {OpRequires.parsed.v, RequestLists,
     QueryOf(<< Field("o", Ty("O", FALSE), <<>>, << FragmentSpread("F") >>,
                      "absent", "absent") >>),
     QueryOf(<< Field("o", Ty("O", FALSE), <<>>,
                      << Field("i", Ty("I", FALSE), <<>>,
                               << InlineFragment(Some("P"), << Leaf("y", IntTy) >>) >>,
                               "absent", "absent") >>,
                      "absent", "absent") >>)}

\* a call of score_selection_set in progress
Frame(selection_set, parent_type_name) ==
    [selection_set |-> selection_set, parent_type_name |-> parent_type_name]

\* the selection scores when the requirements of its fields are left aside
scores_without_requires(selection, parent_type, schema, executable) ==
    score_selection(Self, selection, parent_type, WithoutRequires(schema), executable,
                    FALSE, None).ok

\* the calls of score_selection_set made while one selection is scored: by
\* score_field for the field's own selections (177-184) and, when the pass
\* estimates requirements, for the selections the field requires (198-216);
\* by score_fragment_spread (247-254) and score_inline_fragment (266-273)
callees_of(selection, parent_type, schema, executable, should_estimate_requires) ==
    IF selection.kind = "Field"
    THEN IF \/ skipped_by_directives(selection)
            \/ ~has_type_field(schema, parent_type, selection.name)
            \/ ~inner_type_def(selection, schema).some
         THEN {}
         ELSE {Frame(selection.selection_set, selection.ty.name)}
              \cup IF /\ estimates_requires(should_estimate_requires)
                      /\ type_field_requires_directive(schema, parent_type,
                                                       selection.name).some
                      /\ scores_without_requires(selection, parent_type, schema, executable)
                   THEN {Frame(type_field_requires_directive(schema, parent_type,
                                                             selection.name).v,
                               parent_type)}
                   ELSE {}
    ELSE IF selection.kind = "FragmentSpread"
    THEN IF fragment_def(selection, executable).some
         THEN {Frame(fragment_def(selection, executable).v.selection_set, parent_type)}
         ELSE {}
    ELSE {Frame(selection.selection_set,
                IF selection.type_condition.some
                THEN selection.type_condition.v ELSE parent_type)}

\* StaticCostCalculator::new (94-104) over a schema of RequiringSchemas
DescentInit ==
    /\ list_size \in ListSizes
    /\ supergraph_schema \in RequiringSchemas
    /\ subgraph_schemas = SubgraphSchemas
    /\ pc = "idle"
    /\ call = NoCall
    /\ result = NoResult
    /\ stack = <<>>

\* estimated is called and, through score_operation, calls
\* score_selection_set on the root selection set (276-302, 462-476)
EnterEstimated ==
    /\ pc = "idle"
    /\ \E query \in DescentDocuments, should_estimate_requires \in BOOLEAN :
          /\ root_operation(supergraph_schema, query.anonymous.v.operation_type).some
          /\ call' = [fn |-> "estimated", query |-> query,
                      should_estimate_requires |-> should_estimate_requires]
          /\ stack' = << Frame(query.anonymous.v.selection_set,
                               root_operation(supergraph_schema,
                                              query.anonymous.v.operation_type).v) >>
    /\ pc' = "scoring"
    /\ UNCHANGED <<list_size, supergraph_schema, subgraph_schemas, result>>

\* the innermost call reaches a selection, the ones before it having scored
\* (351-360), and scoring it calls score_selection_set again
Descend ==
    /\ pc = "scoring"
    /\ Len(stack) < MaxDepth
    /\ LET top == stack[Len(stack)] IN
       \E i \in 1..Len(top.selection_set) :
          /\ \A j \in 1..(i - 1) :
                scores_without_requires(top.selection_set[j], top.parent_type_name,
                                        supergraph_schema, call.query)
          /\ \E callee \in callees_of(top.selection_set[i], top.parent_type_name,
                                      supergraph_schema, call.query,
                                      call.should_estimate_requires) :
                stack' = Append(stack, callee)
    /\ UNCHANGED <<list_size, supergraph_schema, subgraph_schemas, pc, call, result>>

\* the innermost call returns to the call that made it
Ascend ==
    /\ pc = "scoring"
    /\ Len(stack) > 1
    /\ stack' = SubSeq(stack, 1, Len(stack) - 1)
    /\ UNCHANGED <<list_size, supergraph_schema, subgraph_schemas, pc, call, result>>

\* the call on the root selection set returns, and estimated with it
LeaveEstimated ==
    /\ pc = "scoring"
    /\ Len(stack) = 1
    /\ stack' = <<>>
    /\ pc' = "idle"
    /\ call' = NoCall
    /\ UNCHANGED <<list_size, supergraph_schema, subgraph_schemas, result>>

DescentNext ==
    \/ EnterEstimated
    \/ Descend
    \/ Ascend
    \/ LeaveEstimated

DescentSpec == DescentInit /\ [][DescentNext]_vars

(***************************************************************************)
(* Properties of the calls.  Each is stated on the call recorded in `call` *)
(* and what it returned in `result`, and recomputes what the specification *)
(* says the result is from the parts of the input.                         *)
(***************************************************************************)
\* the call of `fn` has returned
Returned(fn) == pc = "done" /\ call.fn = fn

\* the field carries @skip(if: true) or @include(if: false)
Excluded(field) == field.skip = "true" \/ field.include = "false"

\* every result of the sequence is Ok
AllOk(results) == \A i \in 1..Len(results) : results[i].ok

\* the sum of the costs of a sequence of Ok results
RECURSIVE SumOfCosts(_)
SumOfCosts(results) ==
    IF results = <<>> THEN 0 ELSE Head(results).cost + SumOfCosts(Tail(results))

\* the document score_field is called under
NoOperations == Document(None, <<>>, Fragments)

\* the definition of `field` on `parent` (when it has one)
DefinitionOf(schema, parent, field) == schema.types[parent].fields[field.name]

\* the @listSize of the definition resolved for this use of the field
ResolvedListSize(definition, field) ==
    IF definition.list_size.some
    THEN Some(with_field(definition.list_size.v, field)) ELSE None

\* the scores of the arguments of `field`, each against its definition
ArgumentScores(field, definition, schema) ==
    [i \in 1..Len(field.arguments) |->
        score_argument(field.arguments[i].value,
                       definition.arguments[field.arguments[i].name], schema)]

\* Query.ls(first: 4) { ps { y } }: a list field with a weighted argument
SlicedList ==
    Field("ls", Ty("O", TRUE), <<Arg("first", VInt(4))>>,
          << Field("ps", Ty("P", TRUE), <<>>, << Leaf("y", IntTy) >>, "absent", "absent") >>,
          "absent", "absent")

\* C1: for every non-excluded field, score_field returns
\* instance_count * (own type cost + cost of the selection set)
\* + arguments cost + requirements cost, the last two added once; and
\* query { os { ps { y } } } under a directive-free schema and a default list
\* size of 100 costs 100 * (1 + 100 * 1) = 10100.
C1_FieldCostIsCountTimesTypeCostPlusFlatCosts ==
    /\ (Returned("score_field") /\ result.ok /\ ~Excluded(call.field)) =>
          LET field == call.field
              flag == call.should_estimate_requires
              definition == DefinitionOf(supergraph_schema, call.parent_type, field)
              directive == ResolvedListSize(definition, field)
              count == instance_count(Self, field, call.list_size_from_upstream, directive)
              own == IF definition.cost.some THEN definition.cost.v
                     ELSE IF supergraph_schema.types[field.ty.name].kind
                                \in {"Interface", "Object", "Union"} THEN 1
                     ELSE 0
              nested == score_selection_set(Self, field.selection_set, field.ty.name,
                                            supergraph_schema, NoOperations, flag, directive)
              arguments == ArgumentScores(field, definition, supergraph_schema)
              requirements ==
                  IF flag /\ definition.requires.some
                  THEN score_selection_set(Self, definition.requires.v, call.parent_type,
                                           supergraph_schema, NoOperations, flag, directive)
                  ELSE Ok(0)
          IN /\ nested.ok /\ AllOk(arguments) /\ requirements.ok
             /\ result.cost = count * (own + nested.cost) + SumOfCosts(arguments)
                              + requirements.cost
    /\ (Returned("planned") /\ call.query_plan = Fetch("B", OpLists)
            /\ list_size = U32(0, 100)) => result = Ok(10100)

\* a list field of 4 instances whose argument costs 1 has returned 4 * 5 + 1
C1_ListFieldWithWeightedArgumentScored ==
    /\ Returned("score_field")
    /\ call.field = SlicedList
    /\ call.parent_type = "Query"
    /\ ~call.list_size_from_upstream.some
    /\ result = Ok(21)

\* the u32 default list size as the number the specification means
IsDefaultListSize(count) ==
    /\ count >= 0
    /\ count \div 65536 = list_size.hi
    /\ count % 65536 = list_size.lo

\* C2: the instance count of a field is 1 when its type is not a list; else
\* the size the enclosing @listSize supplies for it; else its own @listSize
\* expected size; else the configured default list size.
C2_InstanceCountFollowsPrecedence ==
    (Returned("score_field") /\ ~Excluded(call.field)
        /\ has_type_field(supergraph_schema, call.parent_type, call.field.name)) =>
       LET field == call.field
           upstream == call.list_size_from_upstream
           definition == DefinitionOf(supergraph_schema, call.parent_type, field)
           directive == ResolvedListSize(definition, field)
           count == instance_count(Self, field, upstream, directive)
       IN IF ~field.ty.list THEN count = 1
          ELSE IF upstream.some THEN count = upstream.v
          ELSE IF directive.some /\ directive.v.expected_size.some
          THEN count = directive.v.expected_size.v
          ELSE IsDefaultListSize(count)

\* a selection set without its excluded fields, at every depth
RECURSIVE WithoutExcluded(_)
WithoutExcluded(selection_set) ==
    IF selection_set = <<>> THEN <<>>
    ELSE LET selection == Head(selection_set)
             rest == WithoutExcluded(Tail(selection_set))
         IN IF selection.kind = "FragmentSpread" THEN <<selection>> \o rest
            ELSE IF selection.kind = "Field" /\ Excluded(selection) THEN rest
            ELSE << [selection EXCEPT !.selection_set = WithoutExcluded(@)] >> \o rest

\* an operation, and a document, without their excluded fields
OperationWithoutExcluded(operation) ==
    [operation EXCEPT !.selection_set = WithoutExcluded(@)]

DocumentWithoutExcluded(query) ==
    Document(IF query.anonymous.some
             THEN Some(OperationWithoutExcluded(query.anonymous.v)) ELSE None,
             [i \in 1..Len(query.named) |-> OperationWithoutExcluded(query.named[i])],
             query.fragments)

\* C3: a field carrying @skip(if: true) or @include(if: false) scores
\* exactly 0 and raises no error, whatever it names; the estimate of a
\* document is the estimate of the document without its excluded fields.
C3_ExcludedFieldContributesNothing ==
    /\ (Returned("score_field") /\ Excluded(call.field)) => result = Ok(0)
    /\ Returned("estimated") =>
          result = estimated(Self, DocumentWithoutExcluded(call.query), supergraph_schema,
                             call.should_estimate_requires)

\* an excluded field that its parent type does not define has returned 0
C3_ExcludedUndefinedFieldScored ==
    /\ Returned("score_field")
    /\ call.field.include = "false"
    /\ ~has_type_field(supergraph_schema, call.parent_type, call.field.name)
    /\ result = Ok(0)

\* the literal cannot be resolved against the argument definition
RECURSIVE UnresolvedValue(_, _, _)
UnresolvedValue(value, argument_definition, schema) ==
    \/ argument_definition.ty.name \notin DOMAIN schema.types
    \/ schema.types[argument_definition.ty.name].kind \in {"Object", "Interface", "Union"}
    \/ /\ value.kind = "Object"
       /\ schema.types[argument_definition.ty.name].kind = "InputObject"
       /\ \E i \in 1..Len(value.fields) :
             LET inputs == schema.types[argument_definition.ty.name].fields
                 entry == value.fields[i]
             IN \/ entry.name \notin DOMAIN inputs
                \/ UnresolvedValue(entry.value, inputs[entry.name], schema)
    \/ /\ value.kind = "List"
       /\ \E i \in 1..Len(value.items) :
             UnresolvedValue(value.items[i], argument_definition, schema)

\* something the selection set reaches cannot be resolved in the schema
RECURSIVE UnresolvedSelections(_, _, _, _)
RECURSIVE UnresolvedField(_, _, _, _)
UnresolvedField(field, parent, schema, executable) ==
    \/ ~has_type_field(schema, parent, field.name)
    \/ field.ty.name \notin DOMAIN schema.types
    \/ \E i \in 1..Len(field.arguments) :
          LET declared == DefinitionOf(schema, parent, field).arguments
              argument == field.arguments[i]
          IN \/ argument.name \notin DOMAIN declared
             \/ UnresolvedValue(argument.value, declared[argument.name], schema)
    \/ UnresolvedSelections(field.selection_set, field.ty.name, schema, executable)

UnresolvedSelections(selection_set, parent, schema, executable) ==
    \E i \in 1..Len(selection_set) :
       LET selection == selection_set[i] IN
       CASE selection.kind = "Field" ->
               ~Excluded(selection) /\ UnresolvedField(selection, parent, schema, executable)
         [] selection.kind = "FragmentSpread" ->
               \/ selection.fragment_name \notin DOMAIN executable.fragments
               \/ UnresolvedSelections(
                     executable.fragments[selection.fragment_name].selection_set,
                     parent, schema, executable)
         [] selection.kind = "InlineFragment" ->
               UnresolvedSelections(selection.selection_set,
                                    IF selection.type_condition.some
                                    THEN selection.type_condition.v ELSE parent,
                                    schema, executable)

\* an operation of the document has no root type, or reaches something unresolved
UnresolvedDocument(query, schema) ==
    \E i \in 1..Len(operations_of(query)) :
       LET operation == operations_of(query)[i]
           root == schema.roots[operation.operation_type]
       IN \/ ~root.some
          \/ UnresolvedSelections(operation.selection_set, root.v, schema, query)

\* a leaf the plan scorer reaches names a subgraph without a schema, holds an
\* unparsed sub-operation, or holds one that reaches something unresolved
RECURSIVE UnresolvedPlan(_)
UnresolvedPlan(plan) ==
    CASE plan.kind \in {"Sequence", "Parallel"} ->
            \E i \in 1..Len(plan.nodes) : UnresolvedPlan(plan.nodes[i])
      [] plan.kind = "Flatten" -> UnresolvedPlan(plan.node)
      [] plan.kind = "Condition" ->
            \/ plan.if_clause.some /\ UnresolvedPlan(plan.if_clause.v)
            \/ plan.else_clause.some /\ UnresolvedPlan(plan.else_clause.v)
      [] plan.kind = "Defer" ->
            \/ plan.primary.node.some /\ UnresolvedPlan(plan.primary.node.v)
            \/ \E i \in 1..Len(plan.deferred) :
                  plan.deferred[i].node.some /\ UnresolvedPlan(plan.deferred[i].node.v)
      [] plan.kind = "Fetch" ->
            \/ plan.service_name \notin DOMAIN subgraph_schemas
            \/ ~plan.operation.parsed.some
            \/ UnresolvedDocument(plan.operation.parsed.v,
                                  subgraph_schemas[plan.service_name])
      [] plan.kind = "Subscription" -> UnresolvedPlan(plan.primary)

\* C4: estimation never returns an Ok cost when a scored element cannot be
\* resolved: an undefined field, return type, argument, argument type, input
\* field, fragment or root type, a subgraph without a schema, an unparsed
\* sub-operation; whatever the instance counts and the other costs are.
C4_UnresolvedElementIsAnError ==
    /\ (Returned("estimated") /\ UnresolvedDocument(call.query, supergraph_schema))
          => ~result.ok
    /\ (Returned("planned") /\ UnresolvedPlan(call.query_plan)) => ~result.ok
    /\ (Returned("score_field") /\ ~Excluded(call.field)
           /\ UnresolvedField(call.field, call.parent_type, supergraph_schema, NoOperations))
          => ~result.ok

\* query { zs { g } }: zs has a list size of 0 and the type of g is undefined
ZeroInstancesOfUndefinedType ==
    QueryOf(<< Field("zs", Ty("O", TRUE), <<>>, << Leaf("g", Ty("Ghost", FALSE)) >>,
                     "absent", "absent") >>)

\* a field of undefined type under a list of 0 instances made estimated fail
C4_UnresolvedUnderZeroInstancesFailed ==
    /\ Returned("estimated")
    /\ call.query = ZeroInstancesOfUndefinedType
    /\ ~result.ok

\* the number of mutations among the operations
Mutations(operations) ==
    Cardinality({i \in 1..Len(operations) : operations[i].operation_type = "mutation"})

\* C5: estimated is the sum, over the anonymous operation and every named
\* one, of 10 for a mutation (else 0) plus the cost of the root selection set
\* scored against the root type with no upstream list size; a query selecting
\* only plain scalar fields costs 0.
C5_EstimatedSumsOperationsWithMutationSurcharge ==
    Returned("estimated") =>
       LET query == call.query
           operations ==
              (IF query.anonymous.some THEN <<query.anonymous.v>> ELSE <<>>) \o query.named
           rooted == \A i \in 1..Len(operations) :
                        supergraph_schema.roots[operations[i].operation_type].some
           selections ==
              [i \in 1..Len(operations) |->
                  score_selection_set(Self, operations[i].selection_set,
                                      supergraph_schema.roots[operations[i].operation_type].v,
                                      supergraph_schema, query,
                                      call.should_estimate_requires, None)]
       IN /\ result.ok <=> (rooted /\ AllOk(selections))
          /\ result.ok => result.cost = SumOfCosts(selections) + 10 * Mutations(operations)
          /\ (\A i \in 1..Len(operations) :
                 /\ operations[i].operation_type = "query"
                 /\ \A j \in 1..Len(operations[i].selection_set) :
                       operations[i].selection_set[j] = Leaf("s", IntTy))
             => result = Ok(0)

\* a document of a query and a mutation has been estimated, the mutation at
\* 10 more than its selections
C5_QueryAndMutationEstimated ==
    /\ Returned("estimated")
    /\ call.query.anonymous.some
    /\ call.query.anonymous.v.operation_type = "query"
    /\ Len(call.query.named) = 1
    /\ call.query.named[1].operation_type = "mutation"
    /\ result.ok
    /\ result.cost = 10 + score_selection_set(Self, call.query.anonymous.v.selection_set,
                                              "Query", supergraph_schema, call.query,
                                              call.should_estimate_requires, None).cost
                        + score_selection_set(Self, call.query.named[1].selection_set,
                                              "Mutation", supergraph_schema, call.query,
                                              call.should_estimate_requires, None).cost

\* the @cost weight of the argument definition, or the default
WeightOr(argument_definition, default) ==
    IF argument_definition.cost.some THEN argument_definition.cost.v ELSE default

\* C6: an input-object literal against an input-object type scores the
\* argument's weight (default 1) plus the score of every field of the literal
\* against that input field's definition; a list literal scores the weight
\* (default 0) plus the score of every element against the same definition.
C6_ObjectAndListLiteralsSumTheirParts ==
    (Returned("score_argument") /\ result.ok) =>
       LET value == call.argument
           definition == call.argument_definition
           ty == supergraph_schema.types[definition.ty.name]
           ofFields == [i \in 1..Len(value.fields) |->
                           score_argument(value.fields[i].value,
                                          ty.fields[value.fields[i].name],
                                          supergraph_schema)]
           ofItems == [i \in 1..Len(value.items) |->
                          score_argument(value.items[i], definition, supergraph_schema)]
       IN /\ (value.kind = "Object" /\ ty.kind = "InputObject") =>
                result.cost = WeightOr(definition, 1) + SumOfCosts(ofFields)
          /\ value.kind = "List" =>
                result.cost = WeightOr(definition, 0) + SumOfCosts(ofItems)

\* an input object without @cost holding a weighted field has scored 1 + 1
C6_ObjectLiteralWithDefaultWeightScored ==
    /\ Returned("score_argument")
    /\ call.argument = VObject(<<Arg("a", VInt(7))>>)
    /\ call.argument_definition = ArgDef("in", Ty("Inp", FALSE), None)
    /\ result = Ok(2)

\* the declared type of the argument resolves to a type an argument may have
ResolvesToInputType(argument_definition, schema) ==
    /\ argument_definition.ty.name \in DOMAIN schema.types
    /\ schema.types[argument_definition.ty.name].kind
          \notin {"Object", "Interface", "Union"}

\* C7 as stated: a null literal scores 0 for every argument definition,
\* whatever its @cost and whatever its declared type.
C7_NullScoresZeroUnconditionally ==
    (Returned("score_argument") /\ call.argument = VNull) => result = Ok(0)

\* C7 amended: a null literal scores 0 whatever the @cost of the definition,
\* when the declared type resolves to a scalar, enum or input-object type;
\* when it does not, the call is an error.
C7_NullScoresZeroWhenTypeResolves ==
    (Returned("score_argument") /\ call.argument = VNull) =>
       IF ResolvesToInputType(call.argument_definition, supergraph_schema)
       THEN result = Ok(0) ELSE ~result.ok

\* a null literal for an argument of weight 3 has scored 0
C7_NullForWeightedArgumentScored ==
    /\ Returned("score_argument")
    /\ call.argument = VNull
    /\ call.argument_definition.cost = Some(3)
    /\ result = Ok(0)

\* the scores of a sequence of plan nodes
NodeScores(nodes) == [i \in 1..Len(nodes) |-> score_plan_node(Self, nodes[i])]

\* the nodes a Defer holds: its primary node and the node of every deferred
\* entry, those that are present
NodesOfDefer(plan) ==
    (IF plan.primary.node.some THEN <<plan.primary.node.v>> ELSE <<>>)
    \o [i \in 1..Len(SelectSeq(plan.deferred, LAMBDA d : d.node.some)) |->
           SelectSeq(plan.deferred, LAMBDA d : d.node.some)[i].node.v]

\* the result is the sum of the scores, or an error when one of them is
IsSumOf(scores) ==
    IF AllOk(scores) THEN result = Ok(SumOfCosts(scores)) ELSE ~result.ok

\* C8: Sequence and Parallel score the sum of their children (0 for none)
\* and so score the same; Defer scores the sum of its primary node and of
\* every deferred node present; Flatten scores its wrapped node.
C8_SequenceParallelDeferSumAndFlattenIsTransparent ==
    Returned("planned") =>
       LET plan == call.query_plan IN
       /\ plan.kind \in {"Sequence", "Parallel"} =>
             /\ IsSumOf(NodeScores(plan.nodes))
             /\ score_plan_node(Self, Sequence(plan.nodes))
                   = score_plan_node(Self, Parallel(plan.nodes))
       /\ plan.kind = "Defer" => IsSumOf(NodeScores(NodesOfDefer(plan)))
       /\ plan.kind = "Flatten" => result = score_plan_node(Self, plan.node)

\* a Defer whose primary and deferred nodes both cost something has scored
\* more than either
C8_DeferOfPrimaryAndDeferredScored ==
    /\ Returned("planned")
    /\ call.query_plan.kind = "Defer"
    /\ call.query_plan.primary.node.some
    /\ Len(call.query_plan.deferred) = 1
    /\ call.query_plan.deferred[1].node.some
    /\ result.ok
    /\ result.cost > score_plan_node(Self, call.query_plan.primary.node.v).cost
    /\ result.cost > score_plan_node(Self, call.query_plan.deferred[1].node.v).cost

\* the score of an optional branch, 0 when it is absent
BranchScore(branch) == IF branch.some THEN score_plan_node(Self, branch.v) ELSE Ok(0)

\* C9: a Condition scores the maximum of the costs of its two optional
\* branches, an absent branch counting 0, for every combination of present
\* and absent branches; an error in a present branch is an error of the node.
C9_ConditionIsMaxOfBranchesAbsentAsZero ==
    (Returned("planned") /\ call.query_plan.kind = "Condition") =>
       LET left == BranchScore(call.query_plan.if_clause)
           right == BranchScore(call.query_plan.else_clause)
       IN IF left.ok /\ right.ok
          THEN result = Ok(IF left.cost >= right.cost THEN left.cost ELSE right.cost)
          ELSE ~result.ok

\* C10: a Fetch, and a Subscription through its primary leg alone, score
\* estimated(parsed sub-operation, schema of the subgraph, false); so planned
\* is the same whether or not the subgraph schemas carry @requires.
C10_LeavesAreEstimatedWithoutRequires ==
    Returned("planned") =>
       LET plan == call.query_plan
           leaf == IF plan.kind = "Subscription" THEN plan.primary ELSE plan
           bare == [Self EXCEPT !.subgraph_schemas =
                      [s \in DOMAIN @ |-> WithoutRequires(@[s])]]
       IN /\ (plan.kind \in {"Fetch", "Subscription"}
                 /\ leaf.service_name \in DOMAIN subgraph_schemas
                 /\ leaf.operation.parsed.some) =>
                result = estimated(Self, leaf.operation.parsed.v,
                                   subgraph_schemas[leaf.service_name], FALSE)
          /\ plan.kind = "Subscription" => result = score_plan_node(Self, plan.primary)
          /\ result = planned(bare, plan)

\* a Subscription whose primary leg selects a field with @requires, and
\* which has a rest node, has scored the primary leg without the requirement
C10_SubscriptionOverRequiringFieldScored ==
    /\ Returned("planned")
    /\ call.query_plan = Subscription(Fetch("A", OpRequires), Some(Fetch("B", OpLists)))
    /\ result = Ok(1)
    /\ estimated(Self, OpRequires.parsed.v, subgraph_schemas.A, TRUE) = Ok(3)

\* the sum of a sequence of costs
RECURSIVE Total(_)
Total(costs) == IF costs = <<>> THEN 0 ELSE Head(costs) + Total(Tail(costs))

\* the @cost weight of the field on its parent, or the default
FieldWeightOr(schema, parent, field, default) ==
    IF type_field_cost_directive(schema, parent, field.name).some
    THEN type_field_cost_directive(schema, parent, field.name).v ELSE default

\* the argument of the field has a definition on the parent and scores against it
ArgumentResolves(schema, parent, field, argument) ==
    /\ has_type_field(schema, parent, field.name)
    /\ argument.name \in DOMAIN DefinitionOf(schema, parent, field).arguments
    /\ score_argument(argument.value,
                      DefinitionOf(schema, parent, field).arguments[argument.name], schema).ok

\* what the arguments of the field add at one visit of it
ArgumentsAdded(schema, parent, field) ==
    Total([i \in 1..Len(field.arguments) |->
             IF ArgumentResolves(schema, parent, field, field.arguments[i])
             THEN score_argument(field.arguments[i].value,
                                 DefinitionOf(schema, parent, field).arguments[
                                     field.arguments[i].name], schema).cost
             ELSE 0])

RECURSIVE ValueCost(_, _, _, _, _)
RECURSIVE ChildrenCost(_, _, _, _, _)

\* what a response value adds for its field: for an array the sum over its
\* elements of what each adds, for an object the weight (default 1) and what
\* its children add, for anything else the weight (default 0)
ValueCost(schema, request, parent, field, value) ==
    IF value.kind = "Array"
    THEN Total([i \in 1..Len(value.items) |->
                   ValueCost(schema, request, parent, field, value.items[i])])
    ELSE IF value.kind = "Object"
    THEN FieldWeightOr(schema, parent, field, 1)
         + ChildrenCost(schema, request, field.selection_set, field.ty.name, value.children)
    ELSE FieldWeightOr(schema, parent, field, 0)

\* what the children of an object add for a selection set on type ty: for
\* every field with a child of its name, the child's value and, once, the
\* field's arguments
ChildrenCost(schema, request, selection_set, ty, children) ==
    Total([i \in 1..Len(selection_set) |->
        LET s == selection_set[i] IN
        IF s.kind = "Field"
        THEN IF s.name \in DOMAIN children
             THEN ValueCost(schema, request, ty, s, children[s.name])
                  + ArgumentsAdded(schema, ty, s)
             ELSE 0
        ELSE IF s.kind = "FragmentSpread"
        THEN IF s.fragment_name \in DOMAIN request.fragments
             THEN ChildrenCost(schema, request, request.fragments[s.fragment_name].selection_set,
                               request.fragments[s.fragment_name].type_condition, children)
             ELSE 0
        ELSE ChildrenCost(schema, request, s.selection_set,
                          IF s.type_condition.some THEN s.type_condition.v ELSE ty, children)])

\* what a response adds for a request
ResponseCost(schema, request, response) ==
    IF response.data.some /\ response.data.v.kind = "Object"
    THEN Total([i \in 1..Len(operations_of(request)) |->
                   ChildrenCost(schema, request, operations_of(request)[i].selection_set,
                                RootOf(operations_of(request)[i].operation_type),
                                response.data.v.children)])
    ELSE 0

\* a schema without its @listSize
WithoutListSizes(schema) ==
    [schema EXCEPT !.types =
        [t \in DOMAIN @ |->
            IF @[t].kind \in {"Object", "Interface"}
            THEN [@[t] EXCEPT !.fields =
                    [f \in DOMAIN @ |-> [@[f] EXCEPT !.list_size = None]]]
            ELSE @[t]]]

\* C11: in actual an array of N elements adds, for each of the N, the
\* element's weight (the field's @cost, default 1 for an object and 0 for a
\* scalar or null) and, for an object, what its children add; the field's
\* arguments are added once per visit of the field; no @listSize and no
\* default list size changes the result.
C11_ArrayAddsEveryElementAndArgumentsOnce ==
    Returned("actual") =>
       /\ result = Ok(ResponseCost(supergraph_schema, call.request, call.response))
       /\ \A other \in ListSizes :
             result = actual([Self EXCEPT !.list_size = other,
                                          !.supergraph_schema = WithoutListSizes(@)],
                             call.request, call.response)

\* query { ls(first: 4) { x } } answered by a list of two objects: two
\* objects at the default weight and the argument `first` (weight 1) once
C11_TwoItemsOfSlicedListVisited ==
    /\ Returned("actual")
    /\ call.request = RequestSliced
    /\ call.response.data.some
    /\ call.response.data.v.kind = "Object"
    /\ "ls" \in DOMAIN call.response.data.v.children
    /\ call.response.data.v.children.ls.kind = "Array"
    /\ Len(call.response.data.v.children.ls.items) = 2
    /\ \A i \in 1..2 : call.response.data.v.children.ls.items[i].kind = "Object"
    /\ result = Ok(3)

\* the selection set on type ty with every argument removed that has no
\* definition or does not score
RECURSIVE ResolvingArgumentsOnly(_, _, _)
ResolvingArgumentsOnly(schema, selection_set, ty) ==
    [i \in 1..Len(selection_set) |->
        LET s == selection_set[i] IN
        IF s.kind = "Field"
        THEN [s EXCEPT !.arguments =
                          SelectSeq(@, LAMBDA a : ArgumentResolves(schema, ty, s, a)),
                       !.selection_set = ResolvingArgumentsOnly(schema, @, s.ty.name)]
        ELSE IF s.kind = "FragmentSpread" THEN s
        ELSE [s EXCEPT !.selection_set =
                          ResolvingArgumentsOnly(schema, @,
                              IF s.type_condition.some THEN s.type_condition.v ELSE ty)]]

\* the request with every such argument removed
RequestOfResolvingArguments(schema, request) ==
    [anonymous |->
        IF request.anonymous.some
        THEN Some([request.anonymous.v EXCEPT !.selection_set =
                      ResolvingArgumentsOnly(schema, @,
                                             RootOf(request.anonymous.v.operation_type))])
        ELSE None,
     named |->
        [i \in 1..Len(request.named) |->
            [request.named[i] EXCEPT !.selection_set =
                ResolvingArgumentsOnly(schema, @, RootOf(request.named[i].operation_type))]],
     fragments |->
        [f \in DOMAIN request.fragments |->
            [request.fragments[f] EXCEPT !.selection_set =
                ResolvingArgumentsOnly(schema, @, request.fragments[f].type_condition)]]]

\* C12: actual always returns Ok; an argument whose field has no
\* definition, which has no definition itself, or which does not score adds
\* nothing, and the total is that of the same request without these
\* arguments: the field's value and every other argument and field count.
C12_ActualIsOkAndUnresolvedArgumentsAddNothing ==
    Returned("actual") =>
       /\ result.ok
       /\ result.cost = ResponseCost(supergraph_schema,
                                     RequestOfResolvingArguments(supergraph_schema,
                                                                 call.request),
                                     call.response)

\* query { o { x(in: {q: 7}, n: 7) k } } answered in full: `in` does not
\* score, and 1 for o, 2 for n and 3 for k are counted
C12_FailingArgumentBeforeWeightedOneVisited ==
    /\ Returned("actual")
    /\ call.request = RequestFailingArgument
    /\ call.response = Response(Some(RObject("o" :> RObject(("x" :> RNumber) @@ ("k" :> RNumber)))))
    /\ ~score_argument(VObject(<<Arg("q", VInt(7))>>), ArgumentsOfX["in"], supergraph_schema).ok
    /\ result = Ok(6)

\* C13: where estimated succeeds with and without requirement estimation,
\* the estimate with it is at least the estimate without it, and the two are
\* equal when no field of the schema carries @requires.
C13_EstimatingRequiresNeverLowersTheEstimate ==
    (Returned("estimated") /\ call.should_estimate_requires /\ result.ok) =>
       LET without == estimated(Self, call.query, supergraph_schema, FALSE)
           bare == WithoutRequires(supergraph_schema)
       IN /\ without.ok => result.cost >= without.cost
          /\ estimated(Self, call.query, bare, TRUE) = estimated(Self, call.query, bare, FALSE)

\* the schema carries no @cost, @listSize or @requires
NoDirectives(schema) == schema = Plain(schema)

\* the literal with `leaf` for every integer and enum literal in it
RECURSIVE WithLeaves(_, _)
WithLeaves(value, leaf) ==
    IF value.kind \in {"Int", "Enum"} THEN leaf
    ELSE IF value.kind = "Object"
    THEN VObject([i \in 1..Len(value.fields) |->
                     Arg(value.fields[i].name, WithLeaves(value.fields[i].value, leaf))])
    ELSE IF value.kind = "List"
    THEN VList([i \in 1..Len(value.items) |-> WithLeaves(value.items[i], leaf)])
    ELSE value

\* the selection set with every argument value v replaced by Of[v]
RECURSIVE SelectionsWithValues(_, _)
SelectionsWithValues(selection_set, Of) ==
    [i \in 1..Len(selection_set) |->
        LET s == selection_set[i] IN
        IF s.kind = "Field"
        THEN [s EXCEPT !.arguments = [j \in 1..Len(@) |-> Arg(@[j].name, Of[@[j].value])],
                       !.selection_set = SelectionsWithValues(@, Of)]
        ELSE IF s.kind = "FragmentSpread" THEN s
        ELSE [s EXCEPT !.selection_set = SelectionsWithValues(@, Of)]]

\* the document with every argument value v replaced by Of[v]
DocumentWithValues(query, Of) ==
    [anonymous |->
        IF query.anonymous.some
        THEN Some([query.anonymous.v EXCEPT !.selection_set = SelectionsWithValues(@, Of)])
        ELSE None,
     named |->
        [i \in 1..Len(query.named) |->
            [query.named[i] EXCEPT !.selection_set = SelectionsWithValues(@, Of)]],
     fragments |->
        [f \in DOMAIN query.fragments |->
            [query.fragments[f] EXCEPT !.selection_set = SelectionsWithValues(@, Of)]]]

\* the argument values of a selection set
RECURSIVE ValuesIn(_)
ValuesIn(selection_set) ==
    UNION {LET s == selection_set[i] IN
           IF s.kind = "Field"
           THEN {s.arguments[j].value : j \in 1..Len(s.arguments)} \cup ValuesIn(s.selection_set)
           ELSE IF s.kind = "FragmentSpread" THEN {}
           ELSE ValuesIn(s.selection_set) : i \in 1..Len(selection_set)}

\* the argument values of a document
ValuesOfDocument(query) ==
    UNION ({ValuesIn(operations_of(query)[i].selection_set) :
               i \in 1..Len(operations_of(query))}
           \cup {ValuesIn(query.fragments[f].selection_set) : f \in DOMAIN query.fragments})

\* literals to put in the place of argument values
OtherLiterals == {VNull, VInt(0), VEnum("BLUE"), VObject(<<>>), VList(<<VObject(<<>>)>>)}

\* C14 as stated: without @cost, @listSize and @requires in the schema, the
\* estimate of a document is that of the same document with any other
\* literal for every argument value.
C14_EstimateIgnoresArgumentLiterals ==
    (Returned("estimated") /\ NoDirectives(supergraph_schema)) =>
       \A literal \in OtherLiterals :
          result = estimated(Self,
                             DocumentWithValues(call.query,
                                 [v \in ValuesOfDocument(call.query) |-> literal]),
                             supergraph_schema, call.should_estimate_requires)

\* C14: without @cost, @listSize and @requires in the schema, the estimate of
\* a document is that of the same document with any other integer or enum
\* literal in the place of every integer and enum literal of its argument
\* values, nulls, input objects and lists staying what they are.
C14_EstimateIgnoresScalarLiterals ==
    (Returned("estimated") /\ NoDirectives(supergraph_schema)) =>
       \A leaf \in {VInt(0), VEnum("BLUE")} :
          result = estimated(Self,
                             DocumentWithValues(call.query,
                                 [v \in ValuesOfDocument(call.query) |-> WithLeaves(v, leaf)]),
                             supergraph_schema, call.should_estimate_requires)

\* query { o { x(in: {a: 7}) } } estimated against the schema without
\* directives: 1 for o and 1 for the input object
C14_InputObjectEstimatedWithoutDirectives ==
    /\ Returned("estimated")
    /\ NoDirectives(supergraph_schema)
    /\ call.query = QueryOf(
          << Field("o", Ty("O", FALSE), <<>>,
                   << Field("x", IntTy, <<Arg("in", VObject(<<Arg("a", VInt(7))>>))>>, <<>>,
                            "absent", "absent") >>,
                   "absent", "absent") >>)
    /\ result = Ok(2)

\* C15: estimated, planned and actual each return an error or a cost that
\* is not negative.
C15_CostsAreNeverNegative ==
    (pc = "done" /\ call.fn \in {"estimated", "planned", "actual"} /\ result.ok) =>
       result.cost >= 0

\* no @cost of the schema, on a field or on an argument, is negative
NonNegativeWeights(schema) ==
    \A t \in DOMAIN schema.types : \A f \in DOMAIN schema.types[t].fields :
       LET d == schema.types[t].fields[f] IN
       /\ d.cost.some => d.cost.v >= 0
       /\ schema.types[t].kind # "InputObject" =>
             \A a \in DOMAIN d.arguments : d.arguments[a].cost.some => d.arguments[a].cost.v >= 0

RECURSIVE ArraysWithin(_, _, _, _, _)
RECURSIVE ValueWithin(_, _, _, _, _)

\* every array among the children answering the selection set holds at most
\* as many items as the instance count the estimator uses for its field
ArraysWithin(request, selection_set, ty, children, list_size_directive) ==
    \A i \in 1..Len(selection_set) :
       LET s == selection_set[i] IN
       IF s.kind = "Field"
       THEN s.name \in DOMAIN children =>
               ValueWithin(request, ty, s, children[s.name],
                           IF list_size_directive.some
                           THEN size_of(list_size_directive.v, s) ELSE None)
       ELSE IF s.kind = "FragmentSpread"
       THEN s.fragment_name \in DOMAIN request.fragments =>
               ArraysWithin(request, request.fragments[s.fragment_name].selection_set, ty,
                            children, list_size_directive)
       ELSE ArraysWithin(request, s.selection_set,
                         IF s.type_condition.some THEN s.type_condition.v ELSE ty,
                         children, list_size_directive)

\* the same of one value of a field
ValueWithin(request, parent, field, value, list_size_from_upstream) ==
    LET dir == IF has_type_field(supergraph_schema, parent, field.name)
               THEN ResolvedListSize(DefinitionOf(supergraph_schema, parent, field), field)
               ELSE None
    IN IF value.kind = "Array"
       THEN /\ Len(value.items) <= instance_count(Self, field, list_size_from_upstream, dir)
            /\ \A i \in 1..Len(value.items) :
                  value.items[i].kind = "Object" =>
                     ArraysWithin(request, field.selection_set, field.ty.name,
                                  value.items[i].children, dir)
       ELSE value.kind = "Object" =>
               ArraysWithin(request, field.selection_set, field.ty.name, value.children, dir)

\* the same of a whole response
ResponseWithin(request, response) ==
    (response.data.some /\ response.data.v.kind = "Object") =>
       \A i \in 1..Len(operations_of(request)) :
          ArraysWithin(request, operations_of(request)[i].selection_set,
                       RootOf(operations_of(request)[i].operation_type),
                       response.data.v.children, None)

\* C16: with no negative @cost in the schema, the estimate of a document
\* with requirement estimation is at least the actual cost of every response
\* to it whose arrays are no longer than the estimator's instance counts.
C16_EstimateBoundsActualFromAbove ==
    (/\ Returned("actual")
     /\ NonNegativeWeights(supergraph_schema)
     /\ ResponseWithin(call.request, call.response)
     /\ estimated(Self, call.request, supergraph_schema, TRUE).ok) =>
       estimated(Self, call.request, supergraph_schema, TRUE).cost >= result.cost

RECURSIVE SelectionDepth(_, _)

\* the calls of score_selection_set nested in one another that a selection
\* set accounts for by itself: one for it and, below its deepest selection,
\* those of that selection's own selection set, fragments followed
SelectionDepth(selection_set, executable) ==
    LET below(s) ==
           IF s.kind = "FragmentSpread"
           THEN IF s.fragment_name \in DOMAIN executable.fragments
                THEN SelectionDepth(executable.fragments[s.fragment_name].selection_set,
                                    executable)
                ELSE 0
           ELSE SelectionDepth(s.selection_set, executable)
        depths == {below(selection_set[i]) : i \in 1..Len(selection_set)}
    IN 1 + (IF depths = {} THEN 0 ELSE CHOOSE d \in depths : \A e \in depths : e <= d)

\* the sum of the values of a function
RECURSIVE SumOfValues(_)
SumOfValues(f) ==
    IF DOMAIN f = {} THEN 0
    ELSE LET x == CHOOSE x \in DOMAIN f : TRUE
         IN f[x] + SumOfValues([y \in (DOMAIN f) \ {x} |-> f[y]])

\* the (type, field) pairs of the schema that carry @requires
RequiringFields(schema) ==
    UNION {{<<t, f>> : f \in {f \in DOMAIN schema.types[t].fields :
                                 schema.types[t].fields[f].requires.some}} :
           t \in {t \in DOMAIN schema.types :
                     schema.types[t].kind \in {"Object", "Interface"}}}

\* the same of the required selections of the schema, taken together
RequiredDepth(schema, executable) ==
    SumOfValues([p \in RequiringFields(schema) |->
                    SelectionDepth(schema.types[p[1]].fields[p[2]].requires.v, executable)])

\* C17: a call of estimated never has more calls of score_selection_set in
\* progress than the nesting of the document's selections and of the
\* selections the schema's @requires name account for; on a bounded stack it
\* so returns.
C17_RecursionDepthBoundedByNesting ==
    pc = "scoring" =>
       Len(stack) <= SelectionDepth(call.query.anonymous.v.selection_set, call.query)
                     + RequiredDepth(supergraph_schema, call.query)

\* the selection set with `... on T { S }` for every spread of a fragment
\* the document defines on T with selection set S
RECURSIVE SpreadsInlined(_, _)
SpreadsInlined(selection_set, executable) ==
    [i \in 1..Len(selection_set) |->
        LET s == selection_set[i] IN
        IF s.kind = "FragmentSpread"
        THEN IF s.fragment_name \in DOMAIN executable.fragments
             THEN InlineFragment(
                      Some(executable.fragments[s.fragment_name].type_condition),
                      SpreadsInlined(executable.fragments[s.fragment_name].selection_set,
                                     executable))
             ELSE s
        ELSE [s EXCEPT !.selection_set = SpreadsInlined(@, executable)]]

\* the document with its spreads so replaced
DocumentOfInlinedSpreads(query) ==
    [query EXCEPT
        !.anonymous = IF @.some
                      THEN Some([@.v EXCEPT !.selection_set = SpreadsInlined(@, query)])
                      ELSE @,
        !.named = [i \in 1..Len(@) |->
                      [@[i] EXCEPT !.selection_set = SpreadsInlined(@, query)]]]

\* C18: the estimate of a document, cost or error, is that of the document
\* in which every spread of a defined fragment is replaced by an inline
\* fragment with the fragment's type condition and selection set.
C18_SpreadScoresAsInlineFragment ==
    Returned("estimated") =>
       (estimated(Self, DocumentOfInlinedSpreads(call.query), supergraph_schema,
                  call.should_estimate_requires).ok = result.ok
        /\ (result.ok =>
               estimated(Self, DocumentOfInlinedSpreads(call.query), supergraph_schema,
                         call.should_estimate_requires) = result))

====
